---- MODULE Spec2Model ----
(***************************************************************************)
(* UserLink MCP Server: request-scoped credential propagation              *)
(* (middlewares/headers.py, utils/auth.py, server.py) and the field        *)
(* projector of the Jira response models (models/jira/issue.py).           *)
(*                                                                         *)
(* A Python str is a sequence of one-character strings, a dict is a        *)
(* function from its keys, an insertion-ordered dict that is iterated is   *)
(* the sequence of its (key, value) items, and None is the value None.     *)
(***************************************************************************)
EXTENDS Integers, Sequences, FiniteSets, TLC

VARIABLES
    pc,                      \* position of each tool call: idle, middleware, call_next, awaiting, done, failed
    request,                 \* the inbound tool call: tool name and the transport's header items
    current_request_headers, \* the ContextVar: its value in the context of each call's task
    branch,                  \* which call_next of on_call_tool is (or was last) pending: try / except
    runs,                    \* how many times the tool handler body was entered
    upstream,                \* the upstream HTTP requests issued by the call, in order
    reads,                   \* the maps returned by current_request_headers.get() in the handler
    log,                     \* the safe_headers dict the middleware wrote to the log
    result,                  \* outcome of the call as seen by the caller
    fn,                      \* pure-function harness: the function that was applied
    arg,                     \* pure-function harness: its input
    ret,                     \* pure-function harness: its return value
    frame                    \* the running service method: its position and local variables

vars == <<pc, request, current_request_headers, branch, runs, upstream, reads, log, result, fn, arg, ret, frame>>
callVars == <<pc, request, current_request_headers, branch, runs, upstream, reads, log, result>>
pureVars == <<fn, arg, ret, frame>>

----------------------------------------------------------------------------
(* Python values *)

None == <<"None">>

Falsy(v) == v = None \/ v = <<>>

\* Python's `a or b`
Or(a, b) == IF Falsy(a) THEN b ELSE a

Letters == <<"a","b","c","d","e","f","g","h","i","j","k","l","m",
             "n","o","p","q","r","s","t","u","v","w","x","y","z">>
Capitals == <<"A","B","C","D","E","F","G","H","I","J","K","L","M",
              "N","O","P","Q","R","S","T","U","V","W","X","Y","Z">>

ToLower == [c \in {Capitals[i] : i \in 1..26} |-> Letters[CHOOSE i \in 1..26 : Capitals[i] = c]]
ToUpper == [c \in {Letters[i] : i \in 1..26} |-> Capitals[CHOOSE i \in 1..26 : Letters[i] = c]]

lowerChar(c) == IF c \in DOMAIN ToLower THEN ToLower[c] ELSE c

upperChar(c) == IF c \in DOMAIN ToUpper THEN ToUpper[c] ELSE c

\* str.lower()
lower(s) == [i \in 1..Len(s) |-> lowerChar(s[i])]

\* str.upper()
upper(s) == [i \in 1..Len(s) |-> upperChar(s[i])]

Whitespace == {" ", "\t", "\n"}

RECURSIVE lstrip(_)
lstrip(s) ==
    IF s = <<>> THEN s
    ELSE IF s[1] \in Whitespace THEN lstrip(Tail(s)) ELSE s

RECURSIVE rstrip(_)
rstrip(s) ==
    IF s = <<>> THEN s
    ELSE IF s[Len(s)] \in Whitespace THEN rstrip(SubSeq(s, 1, Len(s) - 1)) ELSE s

\* str.strip()
strip(s) == rstrip(lstrip(s))

\* `sub in s` for strings
Contains(s, sub) ==
    \E i \in 0..(Len(s) - Len(sub)) : SubSeq(s, i + 1, i + Len(sub)) = sub

\* dict.get(key)
Get(d, k) == IF k \in DOMAIN d THEN d[k] ELSE None

\* d[k] = v
Put(d, k, v) == [x \in (DOMAIN d) \cup {k} |-> IF x = k THEN v ELSE d[x]]

EmptyDict == [x \in {} |-> None]

----------------------------------------------------------------------------
(* utils/auth.py *)

MICROSOFT == <<"x","-","m","i","c","r","o","s","o","f","t","-","g","r","a","p","h","-","t","o","k","e","n">>
ATLASSIAN == <<"x","-","a","t","l","a","s","s","i","a","n","-","t","o","k","e","n">>
ATLASSIAN_CLOUD_ID == <<"x","-","a","t","l","a","s","s","i","a","n","-","c","l","o","u","d","-","i","d">>

MinTokenLength == 20

extract_microsoft_token_wrong_key(headers) ==
    Or(Get(headers, ATLASSIAN), Get(headers, upper(ATLASSIAN)))

extract_microsoft_token(headers) ==
    Or(Get(headers, MICROSOFT), Get(headers, upper(MICROSOFT)))

extract_atlassian_token(headers) ==
    Or(Get(headers, ATLASSIAN), Get(headers, upper(ATLASSIAN)))

extract_atlassian_cloud_id(headers) ==
    Or(Get(headers, ATLASSIAN_CLOUD_ID), Get(headers, upper(ATLASSIAN_CLOUD_ID)))

validate_token_untrimmed(token) ==
    IF Falsy(token) THEN FALSE
    ELSE Len(token) >= MinTokenLength

validate_token(token) ==
    IF Falsy(token) THEN FALSE
    ELSE Len(strip(token)) >= MinTokenLength

validate_cloud_id_untrimmed(cloud_id) ==
    IF Falsy(cloud_id) THEN FALSE
    ELSE Len(cloud_id) > 0

validate_cloud_id(cloud_id) ==
    IF Falsy(cloud_id) THEN FALSE
    ELSE Len(strip(cloud_id)) > 0

----------------------------------------------------------------------------
(* middlewares/headers.py *)

\* The ContextVar has no value in a context until set() runs there.
Unset == [set |-> FALSE]

\* ContextVar('current_request_headers', default={})
DefaultHeaders == EmptyDict

\* The context a call's code runs in. The server handles every inbound message
\* in a task of its own; a task's context is a copy of the server loop's, where
\* the variable is never set, and set() in a task changes that task's context only.
SharedContext(i) == 1

ContextOf(i) == i

\* current_request_headers.get()
ContextGet(ctx, i) ==
    IF ctx[ContextOf(i)].set THEN ctx[ContextOf(i)].value ELSE DefaultHeaders

\* current_request_headers.set(value)
ContextSet(ctx, i, value) == [ctx EXCEPT ![ContextOf(i)] = [set |-> TRUE, value |-> value]]

\* for key, value in headers.items(): normalized_headers[key] = value;
\*                                    normalized_headers[key.lower()] = value
RECURSIVE NormalizeOriginalOnly(_, _)
NormalizeOriginalOnly(items, d) ==
    IF items = <<>> THEN d
    ELSE NormalizeOriginalOnly(Tail(items), Put(d, items[1][1], items[1][2]))

RECURSIVE NormalizeFrom(_, _)
NormalizeFrom(items, d) ==
    IF items = <<>> THEN d
    ELSE LET key == items[1][1]
             value == items[1][2]
         IN  NormalizeFrom(Tail(items), Put(Put(d, key, value), lower(key), value))

normalized_headers(items) == NormalizeFrom(items, EmptyDict)

SensitiveWords == {
    <<"t","o","k","e","n">>,
    <<"a","u","t","h","o","r","i","z","a","t","i","o","n">>,
    <<"c","o","o","k","i","e">>,
    <<"k","e","y">>,
    <<"s","e","c","r","e","t">> }

safe_headers_case_sensitive(normalized) ==
    [k \in {k \in DOMAIN normalized : ~ \E x \in SensitiveWords : Contains(k, x)}
        |-> normalized[k]]

\* {k: v for k, v in normalized_headers.items() if not any(x in k.lower() for x in [...])}
safe_headers(normalized) ==
    [k \in {k \in DOMAIN normalized : ~ \E x \in SensitiveWords : Contains(lower(k), x)}
        |-> normalized[k]]

----------------------------------------------------------------------------
(* server.py: credential helpers.  An exception is its type, the literal    *)
(* text of its message, the header name the text spells out, and the header *)
(* value the text includes (None: the message includes no value).           *)

MicrosoftTokenError ==
    [type |-> "ValueError",
     text |-> "Invalid or missing Microsoft Graph token in request headers",
     header |-> MICROSOFT, value |-> None]

AtlassianTokenError ==
    [type |-> "ValueError",
     text |-> "Invalid or missing Atlassian token in request headers",
     header |-> ATLASSIAN, value |-> None]

AtlassianCloudIdError ==
    [type |-> "ValueError",
     text |-> "Invalid or missing Atlassian Cloud ID in request headers",
     header |-> ATLASSIAN_CLOUD_ID, value |-> None]

Returned(v) == [ok |-> TRUE, value |-> v]
Raised(e) == [ok |-> FALSE, error |-> e]

_get_microsoft_token_unchecked(headers) ==
    Returned(extract_microsoft_token(headers))

_get_microsoft_token(headers) ==
    LET token == extract_microsoft_token(headers)
    IN  IF Falsy(token) \/ ~ validate_token(token)
        THEN Raised(MicrosoftTokenError)
        ELSE Returned(token)

_get_atlassian_token_leaky(headers) ==
    LET token == extract_atlassian_token(headers)
    IN  IF Falsy(token) \/ ~ validate_token(token)
        THEN Raised([AtlassianTokenError EXCEPT !.value = token])
        ELSE Returned(token)

_get_atlassian_token(headers) ==
    LET token == extract_atlassian_token(headers)
    IN  IF Falsy(token) \/ ~ validate_token(token)
        THEN Raised(AtlassianTokenError)
        ELSE Returned(token)

_get_atlassian_cloud_id(headers) ==
    LET cloud_id == extract_atlassian_cloud_id(headers)
    IN  IF Falsy(cloud_id) \/ ~ validate_cloud_id(cloud_id)
        THEN Raised(AtlassianCloudIdError)
        ELSE Returned(cloud_id)

----------------------------------------------------------------------------
(* providers: clients and services *)

Bearer(token) == <<"B","e","a","r","e","r"," ">> \o token

\* AtlassianClient.__init__: the attributes the object has
AtlassianClient(access_token, cloud_id) ==
    [access_token |-> access_token,
     cloud_id |-> cloud_id,
     base_url |-> "ATLASSIAN_API_BASE_URL",
     headers |-> [Authorization |-> Bearer(access_token)]]

\* MicrosoftGraphClient.__init__
MicrosoftGraphClient(access_token) ==
    [access_token |-> access_token,
     base_url |-> "MICROSOFT_GRAPH_API_BASE_URL",
     headers |-> [Authorization |-> Bearer(access_token)]]

AttributeError(attr) ==
    [type |-> "AttributeError",
     text |-> "'AtlassianClient' object has no attribute",
     header |-> attr, value |-> None]

\* response.raise_for_status(), a timeout or a network failure in _request
HTTPError ==
    [type |-> "HTTPError", text |-> "upstream request failed", header |-> None, value |-> None]

\* JiraService.__init__: self.client = client; self.jira = client.jira
JiraService(client) ==
    IF "jira" \in DOMAIN client
    THEN Returned([client |-> client, jira |-> client.jira])
    ELSE Raised(AttributeError("jira"))

\* ConfluenceService.__init__: self.confluence = client.confluence
ConfluenceService(client) ==
    IF "confluence" \in DOMAIN client
    THEN Returned([client |-> client, confluence |-> client.confluence])
    ELSE Raised(AttributeError("confluence"))

\* AtlassianClient._request, MicrosoftGraphClient._request: the request handed to httpx
UpstreamRequest(client) ==
    [base_url |-> client.base_url, Authorization |-> client.headers.Authorization]

----------------------------------------------------------------------------
(* server.py: the tools *)

JiraTools == {"jira_search_issues", "jira_search_issues_by_jql", "jira_count_issues_by_jql",
              "jira_get_issue", "jira_get_all_projects", "jira_get_project_issues",
              "jira_get_sprint_issues", "jira_get_issue_comments", "jira_get_issue_worklogs"}
ConfluenceTools == {"confluence_search_content"}
TeamsTools == {"teams_get_joined_teams", "teams_get_team_channels", "teams_get_channel_messages",
               "teams_search_messages", "teams_list_my_chats", "teams_list_chat_messages"}
OutlookTools == {"outlook_get_emails", "outlook_get_message", "outlook_search_emails",
                 "outlook_get_calendar_events"}
Tools == JiraTools \cup ConfluenceTools \cup TeamsTools \cup OutlookTools

\* The synchronous part of a tool handler, from its first line to its first
\* await or to the exception that ends it: each tool reads its credentials from
\* the ContextVar, builds the client, builds the service, calls one service method.
\* Returned(request): the handler is suspended on that upstream request.
ToolHandler(tool, headers) ==
    IF tool \in JiraTools \cup ConfluenceTools
    THEN LET token == _get_atlassian_token(headers)
             cloud_id == _get_atlassian_cloud_id(headers)
         IN  IF ~ token.ok THEN token
             ELSE IF ~ cloud_id.ok THEN cloud_id
             ELSE LET client == AtlassianClient(token.value, cloud_id.value)
                      service == IF tool \in JiraTools THEN JiraService(client)
                                 ELSE ConfluenceService(client)
                  IN  IF ~ service.ok THEN service
                      ELSE Returned(UpstreamRequest(client))
    ELSE LET token == _get_microsoft_token(headers)
         IN  IF ~ token.ok THEN token
             ELSE Returned(UpstreamRequest(MicrosoftGraphClient(token.value)))

----------------------------------------------------------------------------
(* Inbound tool calls *)

NumInvocations == 2
MaxPad == 2
MaxBody == 21

Invocations == 1..NumInvocations

Digits == <<"1","2","3","4","5","6","7","8","9">>

Rep(c, n) == [k \in 1..n |-> c]

\* Header values of call i: a token of exactly the minimum length, one a character short
ValidToken(c, i) == Rep(c, MinTokenLength - 1) \o <<Digits[i]>>
ShortToken(c, i) == Rep(c, MinTokenLength - 2) \o <<Digits[i]>>
CloudId(i) == <<"c", "-", Digits[i]>>

Padded(v) == Rep(" ", MaxPad) \o v \o Rep("\t", MaxPad)

\* A header name as a client may spell it
MixedCase(name) == <<upperChar(name[1])>> \o Tail(name)
Casings(name) == {name, upper(name), MixedCase(name)}

ACCEPT == <<"a","c","c","e","p","t">>

\* The header dicts of the concurrent calls: every value carries the call's number
TaggedHeaders(i) == {
    <<>>,
    << <<ATLASSIAN, ValidToken("a", i)>>, <<ATLASSIAN_CLOUD_ID, CloudId(i)>>,
       <<MICROSOFT, ValidToken("m", i)>> >>,
    << <<upper(ATLASSIAN), ShortToken("a", i)>>, <<ACCEPT, <<"*">> >> >>,
    << <<MixedCase(MICROSOFT), ShortToken("m", i)>>, <<ACCEPT, <<"*">> >> >> }

ConcurrentTools == {"jira_get_issue", "teams_get_joined_teams"}

\* The header dicts of the single call: each credential absent, or sent under one
\* spelling of its name, or under two spellings with different values
TokenValues(c) == {ValidToken(c, 1), Padded(ValidToken(c, 1)), ShortToken(c, 1),
                   Padded(ShortToken(c, 1)), Rep(" ", MinTokenLength), <<>>}
CloudIdValues == {CloudId(1), Padded(CloudId(1)), Rep(" ", MaxPad + 1), <<>>}

HeaderItems(name, values, first, second) ==
    {<<>>}
    \cup {<< <<k, v>> >> : k \in Casings(name), v \in values}
    \cup {<< <<p[1], first>>, <<p[2], second>> >> :
             p \in {q \in Casings(name) \X Casings(name) : q[1] # q[2]}}

TrackerHeaders ==
    {t \o c : t \in HeaderItems(ATLASSIAN, TokenValues("a"), ValidToken("a", 1), ShortToken("a", 2)),
              c \in HeaderItems(ATLASSIAN_CLOUD_ID, CloudIdValues, CloudId(1), <<>>)}

GroupwareHeaders ==
    {a \o m : a \in {<<>>, << <<ATLASSIAN, ValidToken("a", 1)>> >>},
              m \in HeaderItems(MICROSOFT, TokenValues("m"), ValidToken("m", 1), ShortToken("m", 2))}

RawHeaders == TrackerHeaders \cup GroupwareHeaders

NoRequest == [tool |-> "none", headers |-> <<>>]
NoLog == [written |-> FALSE]
NoFrame == [pc |-> "none"]
NoResult == [status |-> "none"]
Success == [status |-> "ok"]
Failure(e) == [status |-> "error", error |-> e]

Init ==
    /\ pc = [i \in Invocations |-> "idle"]
    /\ request = [i \in Invocations |-> NoRequest]
    /\ current_request_headers = [i \in Invocations |-> Unset]
    /\ branch = [i \in Invocations |-> "none"]
    /\ runs = [i \in Invocations |-> 0]
    /\ upstream = [i \in Invocations |-> <<>>]
    /\ reads = [i \in Invocations |-> {}]
    /\ log = [i \in Invocations |-> NoLog]
    /\ result = [i \in Invocations |-> NoResult]
    /\ fn = "none"
    /\ arg = None
    /\ ret = None
    /\ frame = NoFrame

\* The transport delivers a tool call; the server starts a task for it.
Receive(i, tools, dicts) ==
    /\ pc[i] = "idle"
    /\ fn = "none"
    /\ pc' = [pc EXCEPT ![i] = "middleware"]
    /\ \E tool \in tools, headers \in dicts :
          request' = [request EXCEPT ![i] = [tool |-> tool, headers |-> headers]]
    /\ UNCHANGED <<current_request_headers, branch, runs, upstream, reads, log, result, pureVars>>

\* on_call_tool, the try block up to `await call_next(context)`
CaptureHeaders(i) ==
    /\ pc[i] = "middleware"
    /\ LET normalized == normalized_headers(request[i].headers)
       IN  /\ log' = [log EXCEPT ![i] = [written |-> TRUE, headers |-> safe_headers(normalized)]]
           /\ current_request_headers' = ContextSet(current_request_headers, i, normalized)
    /\ branch' = [branch EXCEPT ![i] = "try"]
    /\ pc' = [pc EXCEPT ![i] = "call_next"]
    /\ UNCHANGED <<request, runs, upstream, reads, result, pureVars>>

\* on_call_tool, get_http_headers() raises: the except block awaits call_next
CaptureFails(i) ==
    /\ pc[i] = "middleware"
    /\ branch' = [branch EXCEPT ![i] = "except"]
    /\ pc' = [pc EXCEPT ![i] = "call_next"]
    /\ UNCHANGED <<request, current_request_headers, runs, upstream, reads, log, result, pureVars>>

\* An exception leaves call_next: inside the try block the except clause catches
\* it and awaits call_next again; from the except block it reaches the caller.
Propagate(i, e) ==
    IF branch[i] = "try"
    THEN /\ branch' = [branch EXCEPT ![i] = "except"]
         /\ pc' = [pc EXCEPT ![i] = "call_next"]
         /\ UNCHANGED result
    ELSE /\ pc' = [pc EXCEPT ![i] = "failed"]
         /\ result' = [result EXCEPT ![i] = Failure(e)]
         /\ UNCHANGED branch

\* call_next runs the tool handler up to its first await
CallTool(i) ==
    /\ pc[i] = "call_next"
    /\ runs' = [runs EXCEPT ![i] = @ + 1]
    /\ LET headers == ContextGet(current_request_headers, i)
           outcome == ToolHandler(request[i].tool, headers)
       IN  /\ reads' = [reads EXCEPT ![i] = @ \cup {headers}]
           /\ IF outcome.ok
              THEN /\ upstream' = [upstream EXCEPT ![i] = Append(@, outcome.value)]
                   /\ pc' = [pc EXCEPT ![i] = "awaiting"]
                   /\ UNCHANGED <<branch, result>>
              ELSE /\ Propagate(i, outcome.error)
                   /\ UNCHANGED upstream
    /\ UNCHANGED <<request, current_request_headers, log, pureVars>>

\* The upstream answers 2xx: the handler returns the response
UpstreamResponds(i) ==
    /\ pc[i] = "awaiting"
    /\ pc' = [pc EXCEPT ![i] = "done"]
    /\ result' = [result EXCEPT ![i] = Success]
    /\ UNCHANGED <<request, current_request_headers, branch, runs, upstream, reads, log, pureVars>>

\* The upstream answers non-2xx, times out or is unreachable: _request raises
UpstreamFails(i) ==
    /\ pc[i] = "awaiting"
    /\ Propagate(i, HTTPError)
    /\ UNCHANGED <<request, current_request_headers, runs, upstream, reads, log, pureVars>>

Step(i) ==
    \/ CaptureHeaders(i)
    \/ CaptureFails(i)
    \/ CallTool(i)
    \/ UpstreamResponds(i)
    \/ UpstreamFails(i)

Next ==
    \E i \in Invocations :
        \/ Receive(i, ConcurrentTools, TaggedHeaders(i))
        \/ Step(i)

Spec == Init /\ [][Next]_vars

----------------------------------------------------------------------------
(* Claims about the credential context *)

\* The map the middleware builds from call i's own headers
OwnMap(i) == normalized_headers(request[i].headers)

\* The middleware installed a map for call i (it logs before it sets, in one step)
Captured(i) == log[i].written

\* C1: isolation of the credential context: when two calls have each installed
\* a map and the maps differ, every map read by the handler of one is its own
\* map and never the other's, under every interleaving of the calls.
C1_Isolation ==
    \A i \in Invocations : \A j \in Invocations \ {i} :
        (Captured(i) /\ Captured(j) /\ OwnMap(i) # OwnMap(j))
            => \A h \in reads[i] : h = OwnMap(i) /\ h # OwnMap(j)

\* Both handlers have read the context and are suspended on their upstream
\* request at the same time, each under its own installed map.
C1_Witness ==
    /\ pc[1] = "awaiting" /\ pc[2] = "awaiting"
    /\ Captured(1) /\ Captured(2) /\ OwnMap(1) # OwnMap(2)
    /\ reads[1] = {OwnMap(1)} /\ reads[2] = {OwnMap(2)}

\* C2: a failed tool call is never retried: within one call the handler body
\* runs at most once and at most one upstream request is issued.
C2_NoAutomaticRetry ==
    \A i \in Invocations : runs[i] <= 1 /\ Len(upstream[i]) <= 1

\* C3: no stale credentials: every map read by a handler is the map captured
\* for its own call, or the empty default when none was captured for it.
C3_NoStaleCredentials ==
    \A i \in Invocations : \A h \in reads[i] :
        h = (IF Captured(i) THEN OwnMap(i) ELSE DefaultHeaders)

\* Call 1 installed a non-empty map and has ended; the handler of call 2 ran
\* although header capture raised, and read the empty default.
C3_Witness ==
    /\ pc[1] \in {"done", "failed"} /\ Captured(1) /\ OwnMap(1) # EmptyDict
    /\ pc[2] = "failed" /\ ~ Captured(2) /\ request[2].headers # <<>>
    /\ reads[2] = {DefaultHeaders}

----------------------------------------------------------------------------
(* What the claims mean by a trimmed length, a sent credential, a valid one *)

NonSpace(s) == {k \in 1..Len(s) : s[k] \notin Whitespace}

\* Number of characters from the first to the last non-whitespace character
TrimmedLength(s) ==
    IF NonSpace(s) = {} THEN 0
    ELSE LET first == CHOOSE k \in NonSpace(s) : \A m \in NonSpace(s) : k <= m
             last == CHOOSE k \in NonSpace(s) : \A m \in NonSpace(s) : k >= m
         IN  last - first + 1

TokenHeaderNames == {MICROSOFT, ATLASSIAN}

\* The values call i's client sent under any spelling of a header name
Sent(i, name) ==
    {request[i].headers[n][2] : n \in {m \in 1..Len(request[i].headers) :
                                          lower(request[i].headers[m][1]) = name}}

\* The credential a header name carries is acceptable
Acceptable(name, v) ==
    IF name \in TokenHeaderNames THEN TrimmedLength(v) >= MinTokenLength
    ELSE TrimmedLength(v) > 0

\* Header dicts h1 and h2 differ, and only in the value sent under `name`
DifferOnlyIn(h1, h2, name) ==
    /\ h1 # h2
    /\ Len(h1) = Len(h2)
    /\ \A n \in 1..Len(h1) :
          /\ h1[n][1] = h2[n][1]
          /\ h1[n][2] # h2[n][2] => lower(h1[n][1]) = name

CredentialError(i) == pc[i] = "failed" /\ result[i].error.type = "ValueError"

\* C9: credential failures do not expose the token: the error names the header
\* whose credential is missing or unacceptable and includes no header value, it
\* is the same for two calls whose header dicts differ only in the rejected
\* token's value, and the logged header set holds no token header or its value.
C9_NoTokenExposure ==
    /\ \A i \in Invocations : CredentialError(i) =>
          /\ result[i].error.value = None
          /\ result[i].error.header \in TokenHeaderNames \cup {ATLASSIAN_CLOUD_ID}
          /\ Captured(i) => \A v \in Sent(i, result[i].error.header) :
                                ~ Acceptable(result[i].error.header, v)
    /\ \A i \in Invocations : \A j \in Invocations :
          (/\ CredentialError(i) /\ CredentialError(j)
           /\ request[i].tool = request[j].tool
           /\ Captured(i) /\ Captured(j)
           /\ DifferOnlyIn(request[i].headers, request[j].headers, result[i].error.header))
          => result[i] = result[j]
    /\ \A i \in Invocations : Captured(i) =>
          \A n \in 1..Len(request[i].headers) :
              lower(request[i].headers[n][1]) \in TokenHeaderNames =>
                  /\ request[i].headers[n][1] \notin DOMAIN log[i].headers
                  /\ lower(request[i].headers[n][1]) \notin DOMAIN log[i].headers
                  /\ \A k \in DOMAIN log[i].headers :
                        log[i].headers[k] # request[i].headers[n][2]

\* Two tracker calls were rejected for tokens that differ only in value, sent
\* under the upper-case header name; the log holds the other header only.
C9_Witness ==
    /\ CredentialError(1) /\ CredentialError(2)
    /\ request[1].tool = "jira_get_issue" /\ request[2].tool = "jira_get_issue"
    /\ Captured(1) /\ Captured(2)
    /\ result[1].error.header = ATLASSIAN
    /\ Sent(1, ATLASSIAN) # {}
    /\ DifferOnlyIn(request[1].headers, request[2].headers, ATLASSIAN)
    /\ DOMAIN log[1].headers = {ACCEPT}

----------------------------------------------------------------------------
(* The single tool call over every tool and every header dict, and the pure *)
(* functions of utils/auth.py applied to strings and dicts                  *)

PadLeft(n) == [k \in 1..n |-> IF k % 2 = 1 THEN " " ELSE "\t"]
PadRight(n) == [k \in 1..n |-> IF k % 2 = 1 THEN "\n" ELSE " "]

\* n characters, the second one a space when `inner`
Body(n, inner) == [k \in 1..n |-> IF inner /\ k = 2 /\ n >= 3 THEN " " ELSE "t"]

\* Optional[str] inputs: None and strings with and without surrounding whitespace
StringInputs ==
    {None} \cup {PadLeft(l) \o Body(n, inner) \o PadRight(r) :
                    l \in 0..MaxPad, r \in 0..MaxPad, n \in 0..MaxBody, inner \in BOOLEAN}

\* dict inputs: each spelling of each credential header absent, present with
\* a value of its own, or present with an empty value
HeaderKeys ==
    {MICROSOFT, upper(MICROSOFT), MixedCase(MICROSOFT),
     ATLASSIAN, upper(ATLASSIAN), MixedCase(ATLASSIAN),
     ATLASSIAN_CLOUD_ID, upper(ATLASSIAN_CLOUD_ID)}

ValueUnder(k) == <<"v", "=">> \o k

HeaderDicts ==
    {[k \in {x \in HeaderKeys : c[x] # "absent"} |->
         IF c[k] = "empty" THEN <<>> ELSE ValueUnder(k)] :
     c \in [HeaderKeys -> {"absent", "value", "empty"}]}

\* No tool call has arrived and no function has been applied
Idle == fn = "none" /\ pc = [i \in Invocations |-> "idle"]

Apply(name, input, output) ==
    /\ fn' = name
    /\ arg' = input
    /\ ret' = output
    /\ UNCHANGED <<callVars, frame>>

Apply_validate_token ==
    /\ Idle
    /\ \E token \in StringInputs : Apply("validate_token", token, validate_token(token))

Apply_validate_cloud_id ==
    /\ Idle
    /\ \E cloud_id \in StringInputs :
          Apply("validate_cloud_id", cloud_id, validate_cloud_id(cloud_id))

Apply_extract_microsoft_token ==
    /\ Idle
    /\ \E headers \in HeaderDicts :
          Apply("extract_microsoft_token", headers, extract_microsoft_token(headers))

Apply_extract_atlassian_token ==
    /\ Idle
    /\ \E headers \in HeaderDicts :
          Apply("extract_atlassian_token", headers, extract_atlassian_token(headers))

Apply_extract_atlassian_cloud_id ==
    /\ Idle
    /\ \E headers \in HeaderDicts :
          Apply("extract_atlassian_cloud_id", headers, extract_atlassian_cloud_id(headers))

NextCall ==
    \/ Receive(1, Tools, RawHeaders)
    \/ Step(1)
    \/ Apply_validate_cloud_id

SpecCall == Init /\ [][NextCall]_vars

NextAuth ==
    \/ Apply_validate_token
    \/ Apply_validate_cloud_id
    \/ Apply_extract_microsoft_token
    \/ Apply_extract_atlassian_token
    \/ Apply_extract_atlassian_cloud_id

SpecAuth == Init /\ [][NextAuth]_vars

----------------------------------------------------------------------------
(* Claims about credential validation and extraction *)

TrackerTools == JiraTools \cup ConfluenceTools

RequiredHeaders(tool) ==
    IF tool \in TrackerTools THEN {ATLASSIAN, ATLASSIAN_CLOUD_ID} ELSE {MICROSOFT}

\* Nothing acceptable was sent under the header name, under any spelling
Unacceptable(i, name) == \A v \in Sent(i, name) : ~ Acceptable(name, v)

\* Something was sent under the header name and all of it is acceptable
Accepted(i, name) == Sent(i, name) # {} /\ \A v \in Sent(i, name) : Acceptable(name, v)

\* C4: when a credential the tool requires is missing or invalid, the call
\* issues no upstream request at any point and can only end with the
\* credential error; every upstream request that is issued carries a token
\* that was sent and is acceptable (validation came first).
C4_InvalidCredentialNoUpstream ==
    \A i \in Invocations : request[i].tool \in Tools =>
        /\ (\E name \in RequiredHeaders(request[i].tool) : Unacceptable(i, name)) =>
              /\ upstream[i] = <<>>
              /\ pc[i] \notin {"awaiting", "done"}
              /\ pc[i] = "failed" =>
                    /\ result[i].status = "error"
                    /\ result[i].error.type = "ValueError"
        /\ \A n \in 1..Len(upstream[i]) :
              \E name \in RequiredHeaders(request[i].tool) : \E v \in Sent(i, name) :
                  /\ Acceptable(name, v)
                  /\ upstream[i][n].Authorization = Bearer(v)

\* A groupware call whose token is long enough only with its surrounding
\* whitespace has failed without an upstream request.
C4_Witness ==
    /\ request[1].tool = "outlook_get_emails"
    /\ Sent(1, MICROSOFT) = {Padded(ShortToken("m", 1))}
    /\ Captured(1)
    /\ pc[1] = "failed" /\ upstream[1] = <<>>
    /\ result[1] = Failure(MicrosoftTokenError)

\* C5: validate_token returns true exactly when the token is present and its
\* length after trimming surrounding whitespace is at least 20.
C5_ValidateToken ==
    fn = "validate_token" =>
        ret = (arg # None /\ TrimmedLength(arg) >= MinTokenLength)

\* A token of 20 or more characters whose trimmed length is 19 was rejected.
C5_Witness ==
    /\ fn = "validate_token" /\ ret = FALSE
    /\ Len(arg) > MinTokenLength /\ TrimmedLength(arg) = MinTokenLength - 1

\* The tenant-id part of C6, for a given expected error of the failing call
TenantCheck(expected(_)) ==
    /\ fn = "validate_cloud_id" => ret = (arg # None /\ TrimmedLength(arg) > 0)
    /\ \A i \in Invocations :
          (/\ request[i].tool \in TrackerTools
           /\ Captured(i)
           /\ Unacceptable(i, ATLASSIAN_CLOUD_ID)
           /\ runs[i] > 0)
          => /\ pc[i] \in {"call_next", "failed"}
             /\ pc[i] = "failed" => result[i] = Failure(expected(i))

TenantIdErrorAlways(i) == AtlassianCloudIdError

TenantIdErrorAfterToken(i) ==
    IF Accepted(i, ATLASSIAN) THEN AtlassianCloudIdError
    ELSE IF Unacceptable(i, ATLASSIAN) THEN AtlassianTokenError
    ELSE result[i].error

\* C6 as stated: validate_cloud_id returns true exactly when the tenant id is
\* present and non-empty after trimming, and a tracker call whose tenant
\* header is absent, empty or whitespace-only fails with the tenant-id error.
C6_Original == TenantCheck(TenantIdErrorAlways)

\* C6 as amended: validate_cloud_id returns true exactly when the tenant id is
\* present and non-empty after trimming; a tracker call whose tenant header is
\* absent, empty or whitespace-only fails, with the tenant-id error when its
\* token is valid and with the token error, which is checked first, when its
\* token is missing or invalid.
C6_TenantIdAfterToken ==
    /\ TenantCheck(TenantIdErrorAfterToken)
    /\ \A i \in Invocations :
          (pc[i] = "failed" /\ result[i] = Failure(AtlassianCloudIdError))
              => ~ Accepted(i, ATLASSIAN_CLOUD_ID)

\* A tracker call with a valid token and a whitespace-only tenant header has
\* failed with the tenant-id error.
C6_Witness ==
    /\ request[1].tool = "jira_search_issues"
    /\ Captured(1)
    /\ Accepted(1, ATLASSIAN)
    /\ Sent(1, ATLASSIAN_CLOUD_ID) = {Rep(" ", MaxPad + 1)}
    /\ pc[1] = "failed"
    /\ result[1] = Failure(AtlassianCloudIdError)

\* The header name each extraction function is for
OwnHeader ==
    [extract_microsoft_token |-> MICROSOFT,
     extract_atlassian_token |-> ATLASSIAN,
     extract_atlassian_cloud_id |-> ATLASSIAN_CLOUD_ID]

\* C7: key independence: an extraction function returns absent for every dict
\* that does not hold its own header (whatever other credential headers the
\* dict holds), and whatever it returns is the value stored under a spelling
\* of its own header name.
C7_KeyIndependence ==
    fn \in DOMAIN OwnHeader =>
        /\ (\A k \in DOMAIN arg : lower(k) # OwnHeader[fn]) => ret = None
        /\ ret = None \/ \E k \in DOMAIN arg : lower(k) = OwnHeader[fn] /\ arg[k] = ret

\* The groupware token was extracted from a dict that holds the tracker token
\* under every spelling and no groupware header: absent.
C7_Witness ==
    /\ fn = "extract_microsoft_token"
    /\ {k \in DOMAIN arg : lower(k) = ATLASSIAN} = Casings(ATLASSIAN)
    /\ \A k \in DOMAIN arg : arg[k] # <<>> /\ lower(k) # MICROSOFT
    /\ ret = None

\* No two header names of call i differ only in letter case
CaseUnique(i) ==
    \A m \in 1..Len(request[i].headers) : \A n \in 1..Len(request[i].headers) :
        m # n => lower(request[i].headers[m][1]) # lower(request[i].headers[n][1])

\* The extraction function of each credential header, applied to a dict
Extract(name, headers) ==
    IF name = MICROSOFT THEN extract_microsoft_token(headers)
    ELSE IF name = ATLASSIAN THEN extract_atlassian_token(headers)
    ELSE extract_atlassian_cloud_id(headers)

CredentialHeaders == {MICROSOFT, ATLASSIAN, ATLASSIAN_CLOUD_ID}

\* The installed map holds header n of call i under its name and under the
\* lower-cased name; if it carries a credential (a non-empty value under a
\* credential header) the extraction function returns that value
NormalizedAt(i, n) ==
    LET installed == current_request_headers[i].value
        k == request[i].headers[n][1]
        v == request[i].headers[n][2]
    IN  /\ k \in DOMAIN installed /\ installed[k] = v
        /\ lower(k) \in DOMAIN installed /\ installed[lower(k)] = v
        /\ (lower(k) \in CredentialHeaders /\ v # <<>>) => Extract(lower(k), installed) = v

\* C8 as stated: after the middleware installs the map, for every inbound
\* header (k, v) the map holds v under k and under lowercase(k), and a
\* credential sent under any letter-casing of its header name is extracted
\* with the value that was sent.
C8_Original ==
    \A i \in Invocations : Captured(i) =>
        \A n \in 1..Len(request[i].headers) : NormalizedAt(i, n)

\* C8 as amended: the same, for inbound headers no two of whose names differ
\* only in letter case (of two such names, the value of the one iterated later
\* is what the map holds under the lower-cased name).
C8_CaseInsensitiveLookup ==
    \A i \in Invocations : (Captured(i) /\ CaseUnique(i)) =>
        \A n \in 1..Len(request[i].headers) : NormalizedAt(i, n)

\* The tracker token was sent under a mixed-case name only, and is extracted
\* from the installed map.
C8_Witness ==
    /\ Captured(1) /\ CaseUnique(1)
    /\ \E n \in 1..Len(request[1].headers) :
          /\ request[1].headers[n] = <<MixedCase(ATLASSIAN), ValidToken("a", 1)>>
          /\ ATLASSIAN \in DOMAIN current_request_headers[1].value
    /\ extract_atlassian_token(current_request_headers[1].value) = ValidToken("a", 1)

----------------------------------------------------------------------------
(* models/jira/issue.py: the field projector.  A Python value is its type   *)
(* and its content; a list is the sequence of its elements.                 *)

MaxSelection == 2

Str(v) == [type |-> "str", val |-> v]
List(v) == [type |-> "list", val |-> v]
PyNone == [type |-> "NoneType", val |-> "None"]

ALL_FIELDS == "*all"

should_include_field_list_only(requested_fields, field_name) ==
    \/ requested_fields = Str(ALL_FIELDS)
    \/ /\ requested_fields.type = "list"
       /\ \E n \in 1..Len(requested_fields.val) : requested_fields.val[n] = field_name

\* JiraIssue.to_simplified_dict.should_include_field, with self.requested_fields
should_include_field(requested_fields, field_name) ==
    \/ requested_fields = Str(ALL_FIELDS)
    \/ requested_fields.type # "list"
    \/ \E n \in 1..Len(requested_fields.val) : requested_fields.val[n] = field_name

\* The names to_simplified_dict asks about, the identifiers, and the marker
FieldNames ==
    {"summary", "url", "description", "status", "issuetype", "priority", "project",
     "duedate", "resolutiondate", "assignee", "reporter", "labels", "components",
     "created", "updated", "comment", "worklog", "parent", "subtasks",
     "id", "key", ALL_FIELDS}

ListedNames == {"summary", "status", "assignee", "id", ALL_FIELDS}

RECURSIVE SeqsUpTo(_, _)
SeqsUpTo(S, n) ==
    IF n = 0 THEN {<<>>}
    ELSE SeqsUpTo(S, n - 1) \cup {Append(q, x) : q \in SeqsUpTo(S, n - 1), x \in S}

\* requested_fields: the marker, None, other strings, values of other types, lists
FieldSelections ==
    {Str(ALL_FIELDS), PyNone, Str(""), Str("summary"), Str("summary,status"),
     [type |-> "int", val |-> 0],
     [type |-> "tuple", val |-> <<"summary">>],
     [type |-> "dict", val |-> <<>>]}
    \cup {List(q) : q \in SeqsUpTo(ListedNames, MaxSelection)}

Apply_should_include_field ==
    /\ Idle
    /\ \E requested_fields \in FieldSelections, field_name \in FieldNames :
          Apply("should_include_field",
                [requested_fields |-> requested_fields, field_name |-> field_name],
                should_include_field(requested_fields, field_name))

NextProject ==
    \/ Apply_should_include_field

SpecProject == Init /\ [][NextProject]_vars

\* C10: the field projector is total, with three cases: true for every name
\* under the all-marker, true for every name under an absent or non-list
\* selection, and membership of the name under a list selection.
C10_FieldProjector ==
    fn = "should_include_field" =>
        /\ ret \in BOOLEAN
        /\ ret = (CASE arg.requested_fields = Str(ALL_FIELDS) -> TRUE
                    [] arg.requested_fields.type # "list" -> TRUE
                    [] OTHER -> arg.field_name \in
                                   {arg.requested_fields.val[n] :
                                       n \in 1..Len(arg.requested_fields.val)})

\* A name was asked about under an absent selection and is included, although
\* no list names it.
C10_Witness ==
    /\ fn = "should_include_field"
    /\ arg.requested_fields = PyNone
    /\ arg.field_name = "labels"
    /\ ret = TRUE

----------------------------------------------------------------------------
(* models/jira: the response models.  An upstream payload is a JSON value:  *)
(* None, bool, int, float, str, list (the sequence of its elements) or dict *)
(* (a function from its keys).  A str of a payload is a sequence of         *)
(* one-character strings.                                                   *)

MaxNodes == 2

PyInt(n) == [type |-> "int", val |-> n]
PyBool(b) == [type |-> "bool", val |-> b]
\* a float: a finite number of tenths, an infinity (tenths is its sign) or nan
PyFloat(kind, tenths) == [type |-> "float", val |-> [kind |-> kind, tenths |-> tenths]]
Dict(f) == [type |-> "dict", val |-> f]
Text(s) == [type |-> "str", val |-> s]

TypeError(what) == [type |-> "TypeError", text |-> what, header |-> None, value |-> None]

\* bool(v)
Truthy(v) ==
    CASE v.type = "NoneType" -> FALSE
      [] v.type = "bool" -> v.val
      [] v.type = "int" -> v.val # 0
      [] v.type = "float" -> ~ (v.val.kind = "finite" /\ v.val.tenths = 0)
      [] v.type = "str" -> Len(v.val) > 0
      [] v.type = "list" -> Len(v.val) > 0
      [] v.type = "dict" -> DOMAIN v.val # {}
      [] OTHER -> TRUE

\* v == s for a str literal s
StrEq(v, s) == v.type = "str" /\ v.val = s

\* str literals of the models
S_text == <<"t","e","x","t">>
S_paragraph == <<"p","a","r","a","g","r","a","p","h">>
S_listItem == <<"l","i","s","t","I","t","e","m">>
S_orderedList == <<"o","r","d","e","r","e","d","L","i","s","t">>
S_bulletList == <<"b","u","l","l","e","t","L","i","s","t">>

\* d.get(key, default) on a dict
DictGet(d, key, default) == IF key \in DOMAIN d.val THEN d.val[key] ELSE default

RECURSIVE SetToSeq(_)
SetToSeq(S) ==
    IF S = {} THEN <<>>
    ELSE LET x == CHOOSE y \in S : TRUE IN <<x>> \o SetToSeq(S \ {x})

\* `for item in v`: the items, or TypeError when v is not iterable
Iterate(v) ==
    CASE v.type = "list" -> Returned(v.val)
      [] v.type = "str" -> Returned([i \in 1..Len(v.val) |-> Text(<<v.val[i]>>)])
      [] v.type = "dict" -> Returned([i \in 1..Cardinality(DOMAIN v.val) |->
                                         Text(<<SetToSeq(DOMAIN v.val)[i]>>)])
      [] OTHER -> Raised(TypeError("object is not iterable"))

\* " ".join(texts): TypeError when an item is not a str
RECURSIVE JoinFrom(_)
JoinFrom(texts) ==
    IF Len(texts) = 1 THEN texts[1].val
    ELSE texts[1].val \o <<" ">> \o JoinFrom(Tail(texts))

Join(texts) ==
    IF \E n \in 1..Len(texts) : texts[n].type # "str"
    THEN Raised(TypeError("sequence item: expected str instance"))
    ELSE Returned(IF texts = <<>> THEN <<>> ELSE JoinFrom(texts))

EMPTY_STRING == Text(<<>>)

\* JiraIssue._extract_text_from_adf: the nested extract_from_content(items),
\* with the list `texts` it appends to
RECURSIVE extract_from_content(_, _)
RECURSIVE extract_from_items(_, _)
extract_from_content(items, texts) ==
    LET it == Iterate(items)
    IN  IF it.ok THEN extract_from_items(it.value, texts) ELSE it

extract_from_items(items, texts) ==
    IF items = <<>> THEN Returned(texts)
    ELSE LET item == Head(items)
         IN  IF item.type # "dict" THEN extract_from_items(Tail(items), texts)
             ELSE LET item_type == DictGet(item, "type", PyNone)
                      text == DictGet(item, "text", EMPTY_STRING)
                      afterText ==
                          IF StrEq(item_type, S_text) /\ Truthy(text)
                          THEN Append(texts, text) ELSE texts
                      paragraph ==
                          IF StrEq(item_type, S_paragraph)
                          THEN LET r == extract_from_content(
                                            DictGet(item, "content", List(<<>>)), afterText)
                               IN  IF r.ok THEN Returned(Append(r.value, Text(<<"\n">>))) ELSE r
                          ELSE Returned(afterText)
                      list ==
                          IF paragraph.ok
                             /\ \E t \in {S_listItem, S_orderedList, S_bulletList} :
                                   StrEq(item_type, t)
                          THEN extract_from_content(
                                   DictGet(item, "content", List(<<>>)), paragraph.value)
                          ELSE paragraph
                  IN  IF list.ok THEN extract_from_items(Tail(items), list.value) ELSE list

\* " ".join(texts).strip()
stripped(joined) == IF joined.ok THEN Returned(Text(strip(joined.value))) ELSE joined

joined_and_stripped(texts) == IF texts.ok THEN stripped(Join(texts.value)) ELSE texts

extract_text_from_content(content) ==
    IF ~ Truthy(content) THEN Returned(EMPTY_STRING)
    ELSE joined_and_stripped(extract_from_content(content, <<>>))

JiraIssue_extract_text_from_adf(adf) ==
    IF ~ Truthy(adf) \/ adf.type # "dict" THEN Returned(EMPTY_STRING)
    ELSE extract_text_from_content(DictGet(adf, "content", List(<<>>)))

\* JiraComment._extract_text_from_adf: the inner loop over a paragraph's content
RECURSIVE paragraph_texts(_, _)
paragraph_texts(items, texts) ==
    IF items = <<>> THEN texts
    ELSE LET text_item == Head(items)
         IN  paragraph_texts(Tail(items),
                 IF text_item.type = "dict" /\ StrEq(DictGet(text_item, "type", PyNone), S_text)
                 THEN Append(texts, DictGet(text_item, "text", EMPTY_STRING))
                 ELSE texts)

\* JiraComment._extract_text_from_adf: the loop over the document's content
RECURSIVE content_texts(_, _)
content_texts(items, texts) ==
    IF items = <<>> THEN Returned(texts)
    ELSE LET item == Head(items)
         IN  IF item.type = "dict" /\ StrEq(DictGet(item, "type", PyNone), S_paragraph)
             THEN LET it == Iterate(DictGet(item, "content", List(<<>>)))
                  IN  IF it.ok THEN content_texts(Tail(items), paragraph_texts(it.value, texts))
                      ELSE it
             ELSE content_texts(Tail(items), texts)

\* " ".join(texts), not stripped
joined_text(joined) == IF joined.ok THEN Returned(Text(joined.value)) ELSE joined

joined_texts(texts) == IF texts.ok THEN joined_text(Join(texts.value)) ELSE texts

iterated_content(it) == IF it.ok THEN joined_texts(content_texts(it.value, <<>>)) ELSE it

JiraComment_extract_text_from_adf(adf) ==
    IF ~ Truthy(adf) \/ adf.type # "dict" THEN Returned(EMPTY_STRING)
    ELSE IF ~ Truthy(DictGet(adf, "content", List(<<>>))) THEN Returned(EMPTY_STRING)
    ELSE iterated_content(Iterate(DictGet(adf, "content", List(<<>>))))

----------------------------------------------------------------------------
(* Rich-text documents: well-formed trees of paragraphs, text runs, lists   *)
(* and list items, nodes of other types, and malformed values               *)

Hello == <<"H","e","l","l","o">>
world == <<"w","o","r","l","d">>

NoKeys == [k \in {} |-> PyNone]

S_doc == <<"d","o","c">>
S_mention == <<"m","e","n","t","i","o","n">>
S_heading == <<"h","e","a","d","i","n","g">>
S_blockquote == <<"b","l","o","c","k","q","u","o","t","e">>

TextNode(text) == Dict([type |-> Text(S_text), text |-> text])
Node(type, content) == Dict([type |-> Text(type), content |-> content])
Document(content) == Dict([type |-> Text(S_doc), version |-> PyInt(1), content |-> content])

Paragraph(texts) == Node(S_paragraph, List([n \in 1..Len(texts) |-> TextNode(Text(texts[n]))]))

Leaves ==
    {TextNode(Text(Hello)), TextNode(Text(world)), TextNode(EMPTY_STRING),
     TextNode(Text(<<" ">> \o Hello)), TextNode(PyInt(5)), TextNode(PyNone),
     Dict([type |-> Text(S_text)]), Dict([type |-> Text(S_mention)]),
     Dict(NoKeys), Text(<<"x">>), PyNone, PyInt(5)}

Children ==
    SeqsUpTo({TextNode(Text(Hello)), TextNode(Text(world)),
              Dict([type |-> Text(S_mention)])}, MaxNodes)

Blocks ==
    {Node(t, List(q)) : t \in {S_paragraph, S_listItem, S_heading}, q \in Children}
    \cup {Node(S_paragraph, PyNone), Node(S_paragraph, PyInt(5)),
          Node(S_paragraph, Text(Hello)), Dict([type |-> Text(S_paragraph)]),
          Node(S_bulletList, PyNone)}

Lists ==
    {Node(t, List(<<b>>)) :
        t \in {S_bulletList, S_orderedList, S_listItem, S_blockquote},
        b \in {Node(S_listItem, List(<<Paragraph(<<Hello>>)>>)),
               Paragraph(<<Hello, world>>),
               Node(S_bulletList, List(<<Node(S_listItem, List(<<Paragraph(<<world>>)>>))>>))}}

TopNodes ==
    {Paragraph(<<Hello, world>>), Paragraph(<<Hello>>), Paragraph(<<>>),
     TextNode(Text(world)),
     Node(S_bulletList, List(<<Node(S_listItem, List(<<Paragraph(<<Hello>>)>>))>>)),
     Dict([type |-> Text(S_heading)])}

StructuredDocuments ==
    {Document(List(<<n>>)) : n \in Leaves \cup Blocks \cup Lists}
    \cup {Document(List(q)) : q \in SeqsUpTo(TopNodes, MaxNodes)}
    \cup {Document(PyNone), Document(PyInt(5)), Document(PyBool(TRUE)),
          Document(Text(Hello)), Document(Paragraph(<<Hello>>)),
          Dict([type |-> Text(S_doc)]), Dict(NoKeys),
          Paragraph(<<Hello, world>>)}

\* what the extractor can be handed: a document, None, or a value of another type
Documents ==
    StructuredDocuments
    \cup {PyNone, Text(Hello), EMPTY_STRING, List(<<>>), List(<<Paragraph(<<Hello>>)>>),
          PyInt(0), PyInt(5), PyBool(FALSE)}

----------------------------------------------------------------------------
(* models/jira/common.py: the related-entity models.  A model instance is   *)
(* its class and its field values; from_api_response returns an instance or *)
(* raises.                                                                  *)

DEFAULT_ID == Text(<<"0">>)

DigitChars == <<"0","1","2","3","4","5","6","7","8","9">>

RECURSIVE Decimal(_)
Decimal(n) == IF n < 10 THEN <<DigitChars[n + 1]>> ELSE Decimal(n \div 10) \o <<DigitChars[(n % 10) + 1]>>

\* str(v): a str is itself, an int its decimal digits, None and bool their names;
\* of the containers only the empty ones are written out
PyStr(v) ==
    CASE v.type = "str" -> v
      [] v.type = "int" -> Text(IF v.val < 0 THEN <<"-">> \o Decimal(0 - v.val) ELSE Decimal(v.val))
      [] v.type = "NoneType" -> Text(<<"N","o","n","e">>)
      [] v.type = "bool" -> Text(IF v.val THEN <<"T","r","u","e">> ELSE <<"F","a","l","s","e">>)
      [] v.type = "list" -> Text(IF v.val = <<>> THEN <<"[","]">> ELSE <<"[",".","]">>)
      [] v.type = "dict" -> Text(IF DOMAIN v.val = {} THEN <<"{","}">> ELSE <<"{",".","}">>)
      [] OTHER -> Text(<<"?">>)

\* the model constructor cls(**fields) of ApiModel
ApiModel(cls, fields) == [type |-> cls, val |-> fields]

\* x.get(...) on a value that is not a dict
NoGetAttribute ==
    [type |-> "AttributeError", text |-> "object has no attribute 'get'",
     header |-> None, value |-> None]

JiraUser_from_api_response(data) ==
    IF ~ Truthy(data) \/ data.type # "dict"
    THEN Returned(ApiModel("JiraUser",
             [account_id |-> EMPTY_STRING, display_name |-> EMPTY_STRING, email |-> PyNone,
              active |-> PyBool(TRUE), avatar_url |-> PyNone]))
    ELSE LET avatarUrls == DictGet(data, "avatarUrls", Dict(NoKeys))
         IN  IF avatarUrls.type # "dict" THEN Raised(NoGetAttribute)
             ELSE Returned(ApiModel("JiraUser",
                      [account_id |-> DictGet(data, "accountId", EMPTY_STRING),
                       display_name |-> DictGet(data, "displayName", EMPTY_STRING),
                       email |-> DictGet(data, "emailAddress", PyNone),
                       active |-> DictGet(data, "active", PyBool(TRUE)),
                       avatar_url |-> DictGet(avatarUrls, "48x48", PyNone)]))

JiraUser_to_simplified_dict(self) ==
    LET simplified == [account_id |-> self.val.account_id, display_name |-> self.val.display_name]
    IN  IF Truthy(self.val.email) THEN Put(simplified, "email", self.val.email) ELSE simplified

JiraStatus_from_api_response(data) ==
    IF ~ Truthy(data) \/ data.type # "dict"
    THEN Returned(ApiModel("JiraStatus",
             [id |-> DEFAULT_ID, name |-> EMPTY_STRING, category |-> PyNone]))
    ELSE LET statusCategory == DictGet(data, "statusCategory", Dict(NoKeys))
         IN  IF statusCategory.type # "dict" THEN Raised(NoGetAttribute)
             ELSE Returned(ApiModel("JiraStatus",
                      [id |-> PyStr(DictGet(data, "id", DEFAULT_ID)),
                       name |-> DictGet(data, "name", EMPTY_STRING),
                       category |-> DictGet(statusCategory, "name", PyNone)]))

JiraStatus_to_simplified_dict(self) ==
    LET simplified == [name |-> self.val.name]
    IN  IF Truthy(self.val.category) THEN Put(simplified, "category", self.val.category) ELSE simplified

JiraIssueType_from_api_response(data) ==
    IF ~ Truthy(data) \/ data.type # "dict"
    THEN Returned(ApiModel("JiraIssueType",
             [id |-> DEFAULT_ID, name |-> EMPTY_STRING, subtask |-> PyBool(FALSE)]))
    ELSE Returned(ApiModel("JiraIssueType",
             [id |-> PyStr(DictGet(data, "id", DEFAULT_ID)),
              name |-> DictGet(data, "name", EMPTY_STRING),
              subtask |-> DictGet(data, "subtask", PyBool(FALSE))]))

JiraIssueType_to_simplified_dict(self) ==
    [name |-> self.val.name, subtask |-> self.val.subtask]

JiraPriority_from_api_response(data) ==
    IF ~ Truthy(data) \/ data.type # "dict"
    THEN Returned(ApiModel("JiraPriority", [id |-> DEFAULT_ID, name |-> EMPTY_STRING]))
    ELSE Returned(ApiModel("JiraPriority",
             [id |-> PyStr(DictGet(data, "id", DEFAULT_ID)),
              name |-> DictGet(data, "name", EMPTY_STRING)]))

JiraPriority_to_simplified_dict(self) == [name |-> self.val.name]

JiraProject_from_api_response(data) ==
    IF ~ Truthy(data) \/ data.type # "dict"
    THEN Returned(ApiModel("JiraProject",
             [id |-> DEFAULT_ID, key |-> EMPTY_STRING, name |-> EMPTY_STRING]))
    ELSE Returned(ApiModel("JiraProject",
             [id |-> PyStr(DictGet(data, "id", DEFAULT_ID)),
              key |-> DictGet(data, "key", EMPTY_STRING),
              name |-> DictGet(data, "name", EMPTY_STRING)]))

JiraProject_to_simplified_dict(self) == [key |-> self.val.key, name |-> self.val.name]

\* the exception that ends a function whose steps had these outcomes, in order
Raises(outcomes) == \E n \in 1..Len(outcomes) : ~ outcomes[n].ok
FirstRaised(outcomes) ==
    outcomes[CHOOSE n \in 1..Len(outcomes) :
                 ~ outcomes[n].ok /\ \A m \in 1..(n - 1) : outcomes[m].ok]

\* `Model.from_api_response(x) if x else None` with from_api_response one of the above
Related(from_api_response(_), x) ==
    IF Truthy(x) THEN from_api_response(x) ELSE Returned(PyNone)

\* a body or comment: the text of a structured document, any other value as it is
rich_text(raw) ==
    IF raw.type = "dict" THEN JiraComment_extract_text_from_adf(raw) ELSE Returned(raw)

\* JiraComment.from_api_response: the constructor call, given its author and body
JiraComment_construct(data, author, body) ==
    IF Raises(<<author, body>>) THEN FirstRaised(<<author, body>>)
    ELSE Returned(ApiModel("JiraComment",
             [id |-> PyStr(DictGet(data, "id", DEFAULT_ID)),
              author |-> author.value,
              body |-> body.value,
              created |-> DictGet(data, "created", EMPTY_STRING),
              updated |-> DictGet(data, "updated", EMPTY_STRING)]))

JiraComment_from_api_response(data) ==
    IF ~ Truthy(data) \/ data.type # "dict"
    THEN Returned(ApiModel("JiraComment",
             [id |-> DEFAULT_ID, author |-> PyNone, body |-> EMPTY_STRING,
              created |-> EMPTY_STRING, updated |-> EMPTY_STRING]))
    ELSE JiraComment_construct(data,
             Related(JiraUser_from_api_response, DictGet(data, "author", PyNone)),
             rich_text(DictGet(data, "body", EMPTY_STRING)))

JiraComment_to_simplified_dict(self) ==
    LET simplified == [id |-> self.val.id, body |-> self.val.body, created |-> self.val.created]
    IN  IF Truthy(self.val.author)
        THEN Put(simplified, "author", Dict(JiraUser_to_simplified_dict(self.val.author)))
        ELSE simplified

\* JiraWorklog.from_api_response: the constructor call, given its author and comment
JiraWorklog_construct(data, author, comment) ==
    IF Raises(<<author, comment>>) THEN FirstRaised(<<author, comment>>)
    ELSE Returned(ApiModel("JiraWorklog",
             [id |-> PyStr(DictGet(data, "id", DEFAULT_ID)),
              author |-> author.value,
              comment |-> comment.value,
              time_spent |-> DictGet(data, "timeSpent", EMPTY_STRING),
              time_spent_seconds |-> DictGet(data, "timeSpentSeconds", PyInt(0)),
              created |-> DictGet(data, "created", EMPTY_STRING),
              started |-> DictGet(data, "started", EMPTY_STRING)]))

JiraWorklog_from_api_response(data) ==
    IF ~ Truthy(data) \/ data.type # "dict"
    THEN Returned(ApiModel("JiraWorklog",
             [id |-> DEFAULT_ID, author |-> PyNone, comment |-> EMPTY_STRING,
              time_spent |-> EMPTY_STRING, time_spent_seconds |-> PyInt(0),
              created |-> EMPTY_STRING, started |-> EMPTY_STRING]))
    ELSE JiraWorklog_construct(data,
             Related(JiraUser_from_api_response, DictGet(data, "author", PyNone)),
             rich_text(DictGet(data, "comment", EMPTY_STRING)))

JiraWorklog_to_simplified_dict(self) ==
    LET simplified == [id |-> self.val.id, time_spent |-> self.val.time_spent,
                   started |-> self.val.started]
        withAuthor == IF Truthy(self.val.author)
                      THEN Put(simplified, "author", Dict(JiraUser_to_simplified_dict(self.val.author)))
                      ELSE simplified
    IN  IF Truthy(self.val.comment) THEN Put(withAuthor, "comment", self.val.comment)
        ELSE withAuthor

----------------------------------------------------------------------------
(* models/jira/issue.py: JiraIssue *)

S_browse == <<"/","b","r","o","w","s","e","/">>
S_Unassigned == <<"U","n","a","s","s","i","g","n","e","d">>

\* kwargs.get(name)
KwGet(kwargs, name) == IF name \in DOMAIN kwargs THEN kwargs[name] ELSE PyNone

\* the loop over components_data: comp.get("name", "") of every dict
RECURSIVE component_names(_)
component_names(items) ==
    IF items = <<>> THEN <<>>
    ELSE IF Head(items).type = "dict"
         THEN <<DictGet(Head(items), "name", EMPTY_STRING)>> \o component_names(Tail(items))
         ELSE component_names(Tail(items))

\* the loop over comments_list: JiraComment.from_api_response(c) of every truthy c
RECURSIVE comment_models(_, _)
RECURSIVE comment_appended(_, _, _)
comment_models(items, comments) ==
    IF items = <<>> THEN Returned(comments)
    ELSE IF Truthy(Head(items))
         THEN comment_appended(JiraComment_from_api_response(Head(items)), items, comments)
         ELSE comment_models(Tail(items), comments)

comment_appended(comment, items, comments) ==
    IF comment.ok THEN comment_models(Tail(items), Append(comments, comment.value))
    ELSE comment

JiraIssue_default(requested_fields) ==
    ApiModel("JiraIssue",
        [id |-> DEFAULT_ID, key |-> EMPTY_STRING, summary |-> EMPTY_STRING,
         description |-> PyNone, created |-> EMPTY_STRING, updated |-> EMPTY_STRING,
         status |-> PyNone, issue_type |-> PyNone, priority |-> PyNone,
         assignee |-> PyNone, reporter |-> PyNone, labels |-> List(<<>>),
         components |-> List(<<>>), comments |-> List(<<>>), worklogs |-> List(<<>>),
         url |-> PyNone, project |-> PyNone, duedate |-> PyNone,
         resolutiondate |-> PyNone, parent |-> PyNone, subtasks |-> List(<<>>),
         requested_fields |-> requested_fields])

\* from_api_response: fields = data.get("fields", {}), read with .get only when
\* it is an object
JiraIssue_fields(data) ==
    IF DictGet(data, "fields", Dict(NoKeys)).type = "dict"
    THEN DictGet(data, "fields", Dict(NoKeys))
    ELSE Dict(NoKeys)

\* from_api_response: the list fields
JiraIssue_labels(raw_labels) == IF raw_labels.type = "list" THEN raw_labels ELSE List(<<>>)

JiraIssue_components(components_data) ==
    IF components_data.type = "list" THEN List(component_names(components_data.val))
    ELSE List(<<>>)

JiraIssue_comments_list(comments_list) ==
    IF comments_list.type = "list" THEN comment_models(comments_list.val, <<>>)
    ELSE Returned(<<>>)

JiraIssue_comments(comment_data) ==
    IF comment_data.type = "dict"
    THEN JiraIssue_comments_list(DictGet(comment_data, "comments", List(<<>>)))
    ELSE Returned(<<>>)

JiraIssue_description(raw_description) ==
    IF raw_description.type = "dict" THEN JiraIssue_extract_text_from_adf(raw_description)
    ELSE Returned(raw_description)

JiraIssue_url_always(issue_key) == Text(S_browse \o PyStr(issue_key).val)

JiraIssue_url(issue_key) ==
    IF Truthy(issue_key) THEN Text(S_browse \o PyStr(issue_key).val) ELSE PyNone

\* from_api_response: the values it computes before the constructor call, in
\* the order of the code
JiraIssue_computed(fields) ==
    [assignee |-> Related(JiraUser_from_api_response, DictGet(fields, "assignee", PyNone)),
     reporter |-> Related(JiraUser_from_api_response, DictGet(fields, "reporter", PyNone)),
     status |-> Related(JiraStatus_from_api_response, DictGet(fields, "status", PyNone)),
     issue_type |-> Related(JiraIssueType_from_api_response,
                            DictGet(fields, "issuetype", PyNone)),
     priority |-> Related(JiraPriority_from_api_response, DictGet(fields, "priority", PyNone)),
     project |-> Related(JiraProject_from_api_response, DictGet(fields, "project", PyNone)),
     description |-> JiraIssue_description(DictGet(fields, "description", PyNone)),
     comments |-> JiraIssue_comments(DictGet(fields, "comment", Dict(NoKeys)))]

InOrder(computed) ==
    <<computed.assignee, computed.reporter, computed.status, computed.issue_type,
      computed.priority, computed.project, computed.description, computed.comments>>

\* from_api_response: the constructor call
JiraIssue_construct(data, fields, computed, kwargs) ==
    IF Raises(InOrder(computed)) THEN FirstRaised(InOrder(computed))
    ELSE Returned(ApiModel("JiraIssue",
             [id |-> PyStr(DictGet(data, "id", DEFAULT_ID)),
              key |-> DictGet(data, "key", EMPTY_STRING),
              summary |-> DictGet(fields, "summary", EMPTY_STRING),
              description |-> computed.description.value,
              created |-> DictGet(fields, "created", EMPTY_STRING),
              updated |-> DictGet(fields, "updated", EMPTY_STRING),
              status |-> computed.status.value,
              issue_type |-> computed.issue_type.value,
              priority |-> computed.priority.value,
              assignee |-> computed.assignee.value,
              reporter |-> computed.reporter.value,
              labels |-> JiraIssue_labels(DictGet(fields, "labels", List(<<>>))),
              components |-> JiraIssue_components(DictGet(fields, "components", List(<<>>))),
              comments |-> List(computed.comments.value),
              worklogs |-> List(<<>>),
              url |-> JiraIssue_url(DictGet(data, "key", EMPTY_STRING)),
              project |-> computed.project.value,
              duedate |-> DictGet(fields, "duedate", PyNone),
              resolutiondate |-> DictGet(fields, "resolutiondate", PyNone),
              parent |-> DictGet(fields, "parent", PyNone),
              subtasks |-> DictGet(fields, "subtasks", List(<<>>)),
              requested_fields |-> KwGet(kwargs, "requested_fields")]))

JiraIssue_from_fields(data, fields, kwargs) ==
    JiraIssue_construct(data, fields, JiraIssue_computed(fields), kwargs)

JiraIssue_from_api_response(data, kwargs) ==
    IF ~ Truthy(data) \/ data.type # "dict" THEN Returned(JiraIssue_default(PyNone))
    ELSE JiraIssue_from_fields(data, JiraIssue_fields(data), kwargs)

\* what to_simplified_dict stores for a field: the value itself, or the
\* to_simplified_dict() of a model or of every model of a list
RECURSIVE simplified_list(_)
simplified_value(v) ==
    CASE v.type = "JiraStatus" -> Dict(JiraStatus_to_simplified_dict(v))
      [] v.type = "JiraIssueType" -> Dict(JiraIssueType_to_simplified_dict(v))
      [] v.type = "JiraPriority" -> Dict(JiraPriority_to_simplified_dict(v))
      [] v.type = "JiraProject" -> Dict(JiraProject_to_simplified_dict(v))
      [] v.type = "JiraUser" -> Dict(JiraUser_to_simplified_dict(v))
      [] v.type = "JiraComment" -> Dict(JiraComment_to_simplified_dict(v))
      [] v.type = "JiraWorklog" -> Dict(JiraWorklog_to_simplified_dict(v))
      [] v.type = "list" -> List(simplified_list(v.val))
      [] OTHER -> v

simplified_list(items) ==
    IF items = <<>> THEN <<>>
    ELSE <<simplified_value(Head(items))>> \o simplified_list(Tail(items))

OptionalFields_without_parent ==
    << <<"url", "url", "url">>,
       <<"description", "description", "description">>,
       <<"status", "status", "status">>,
       <<"issue_type", "issuetype", "issue_type">>,
       <<"priority", "priority", "priority">>,
       <<"project", "project", "project">>,
       <<"duedate", "duedate", "duedate">>,
       <<"resolutiondate", "resolutiondate", "resolutiondate">>,
       <<"reporter", "reporter", "reporter">>,
       <<"labels", "labels", "labels">>,
       <<"components", "components", "components">>,
       <<"created", "created", "created">>,
       <<"updated", "updated", "updated">>,
       <<"comments", "comment", "comments">>,
       <<"worklogs", "worklog", "worklogs">> >>

\* to_simplified_dict: the fields stored `if self.<attr> and
\* should_include_field(<name>)`, as (attribute, selection name, output key)
OptionalFields ==
    << <<"url", "url", "url">>,
       <<"description", "description", "description">>,
       <<"status", "status", "status">>,
       <<"issue_type", "issuetype", "issue_type">>,
       <<"priority", "priority", "priority">>,
       <<"project", "project", "project">>,
       <<"duedate", "duedate", "duedate">>,
       <<"resolutiondate", "resolutiondate", "resolutiondate">>,
       <<"reporter", "reporter", "reporter">>,
       <<"labels", "labels", "labels">>,
       <<"components", "components", "components">>,
       <<"created", "created", "created">>,
       <<"updated", "updated", "updated">>,
       <<"comments", "comment", "comments">>,
       <<"worklogs", "worklog", "worklogs">>,
       <<"parent", "parent", "parent">>,
       <<"subtasks", "subtasks", "subtasks">> >>

identifier_fields_when_set(self) ==
    IF Truthy(self.val.key) THEN [id |-> self.val.id, key |-> self.val.key]
    ELSE [id |-> self.val.id]

\* to_simplified_dict: the initial result
identifier_fields(self) == [id |-> self.val.id, key |-> self.val.key]

\* to_simplified_dict: summary
summary_field(self, simplified) ==
    IF should_include_field(self.val.requested_fields, "summary")
    THEN Put(simplified, "summary", self.val.summary)
    ELSE simplified

assignee_field_when_assigned(self, simplified) ==
    IF should_include_field(self.val.requested_fields, "assignee") /\ Truthy(self.val.assignee)
    THEN Put(simplified, "assignee", Dict(JiraUser_to_simplified_dict(self.val.assignee)))
    ELSE simplified

\* to_simplified_dict: assignee
assignee_field(self, simplified) ==
    IF should_include_field(self.val.requested_fields, "assignee")
    THEN IF Truthy(self.val.assignee)
         THEN Put(simplified, "assignee", Dict(JiraUser_to_simplified_dict(self.val.assignee)))
         ELSE Put(simplified, "assignee", Dict([display_name |-> Text(S_Unassigned)]))
    ELSE simplified

\* to_simplified_dict: one `if self.<attr> and should_include_field(<name>)`
optional_field(self, simplified, field) ==
    IF Truthy(self.val[field[1]]) /\ should_include_field(self.val.requested_fields, field[2])
    THEN Put(simplified, field[3], simplified_value(self.val[field[1]]))
    ELSE simplified

RECURSIVE optional_fields(_, _, _)
optional_fields(self, simplified, n) ==
    IF n = 0 THEN simplified
    ELSE optional_field(self, optional_fields(self, simplified, n - 1), OptionalFields[n])

JiraIssue_to_simplified_dict(self) ==
    optional_fields(self,
        assignee_field(self, summary_field(self, identifier_fields(self))),
        Len(OptionalFields))

----------------------------------------------------------------------------
(* models/jira/search.py: JiraSearchResult *)

ValueError(what) == [type |-> "ValueError", text |-> what, header |-> None, value |-> None]
OverflowError(what) == [type |-> "OverflowError", text |-> what, header |-> None, value |-> None]

DigitValue == [c \in {DigitChars[n] : n \in 1..10} |-> (CHOOSE n \in 1..10 : DigitChars[n] = c) - 1]

RECURSIVE DecimalValue(_)
DecimalValue(digits) ==
    IF digits = <<>> THEN 0
    ELSE 10 * DecimalValue(SubSeq(digits, 1, Len(digits) - 1)) + DigitValue[digits[Len(digits)]]

\* int(text): surrounding whitespace, an optional sign, decimal digits
ParseInt(text) ==
    LET t == strip(text)
        signed == t # <<>> /\ t[1] \in {"+", "-"}
        digits == IF signed THEN Tail(t) ELSE t
    IN  IF digits # <<>> /\ \A n \in 1..Len(digits) : digits[n] \in DOMAIN DigitValue
        THEN Returned(IF signed /\ t[1] = "-" THEN 0 - DecimalValue(digits)
                      ELSE DecimalValue(digits))
        ELSE Raised(ValueError("invalid literal for int() with base 10"))

\* int(v)
int(v) ==
    CASE v.type = "int" -> Returned(v.val)
      [] v.type = "bool" -> Returned(IF v.val THEN 1 ELSE 0)
      [] v.type = "float" ->
            (CASE v.val.kind = "finite" ->
                      Returned(IF v.val.tenths < 0 THEN 0 - ((0 - v.val.tenths) \div 10)
                               ELSE v.val.tenths \div 10)
               [] v.val.kind = "nan" -> Raised(ValueError("cannot convert float NaN to integer"))
               [] OTHER -> Raised(OverflowError("cannot convert float infinity to integer")))
      [] v.type = "str" -> ParseInt(v.val)
      [] OTHER -> Raised(TypeError("int() argument must be a string or a real number"))

\* except (ValueError, TypeError): 0
except_ValueError_TypeError(n) ==
    IF n.ok THEN n
    ELSE IF n.error.type \in {"ValueError", "TypeError"} THEN Returned(0)
    ELSE n

\* try: int(raw) if raw is not None else 0; except (ValueError, TypeError): 0
int_or_zero(raw) ==
    IF raw.type = "NoneType" THEN Returned(0) ELSE except_ValueError_TypeError(int(raw))

\* the loop over issues_data: every truthy item deserialized, its url prefixed
RECURSIVE issue_models(_, _, _)
RECURSIVE issue_appended(_, _, _, _)
issue_models(items, kwargs, issues) ==
    IF items = <<>> THEN Returned(issues)
    ELSE IF Truthy(Head(items))
         THEN issue_appended(JiraIssue_from_api_response(Head(items), kwargs),
                             items, kwargs, issues)
         ELSE issue_models(Tail(items), kwargs, issues)

\* if base_url and hasattr(issue, "url") and issue.url: issue.url = base_url + url
prefixed(issue, base_url) ==
    IF Truthy(base_url) /\ Truthy(issue.val.url)
    THEN [issue EXCEPT !.val.url = Text(PyStr(base_url).val \o PyStr(issue.val.url).val)]
    ELSE issue

issue_appended(issue, items, kwargs, issues) ==
    IF issue.ok
    THEN issue_models(Tail(items), kwargs,
                      Append(issues, prefixed(issue.value, KwGet(kwargs, "base_url"))))
    ELSE issue

JiraSearchResult_issues(issues_data, kwargs) ==
    IF issues_data.type = "list" THEN issue_models(issues_data.val, kwargs, <<>>)
    ELSE Returned(<<>>)

\* from_api_response: the constructor call
JiraSearchResult_construct(issues, total, start_at, max_results) ==
    IF Raises(<<issues, total, start_at, max_results>>)
    THEN FirstRaised(<<issues, total, start_at, max_results>>)
    ELSE Returned(ApiModel("JiraSearchResult",
             [total |-> PyInt(total.value), start_at |-> PyInt(start_at.value),
              max_results |-> PyInt(max_results.value),
              issues |-> List(issues.value)]))

JiraSearchResult_from_api_response(data, kwargs) ==
    IF ~ Truthy(data) \/ data.type # "dict"
    THEN Returned(ApiModel("JiraSearchResult",
             [total |-> PyInt(0), start_at |-> PyInt(0), max_results |-> PyInt(0),
              issues |-> List(<<>>)]))
    ELSE JiraSearchResult_construct(
             JiraSearchResult_issues(DictGet(data, "issues", List(<<>>)), kwargs),
             int_or_zero(DictGet(data, "total", PyNone)),
             int_or_zero(DictGet(data, "startAt", PyNone)),
             int_or_zero(DictGet(data, "maxResults", PyNone)))

JiraSearchResult_to_simplified_dict(self) ==
    [total |-> self.val.total,
     start_at |-> self.val.start_at,
     max_results |-> self.val.max_results,
     issues |-> List([n \in 1..Len(self.val.issues.val) |->
                         Dict(JiraIssue_to_simplified_dict(self.val.issues.val[n]))])]

----------------------------------------------------------------------------
(* Upstream payloads: a complete payload of every model, the same with one  *)
(* field missing or replaced by a value of any JSON type, and values that   *)
(* are not objects                                                          *)

T(c) == Text(<<c>>)

\* d without key k
Drop(d, k) == Dict([x \in (DOMAIN d.val) \ {k} |-> d.val[x]])

\* d with key k set to v
With(d, k, v) == Dict(Put(d.val, k, v))

JsonValues ==
    {PyNone, EMPTY_STRING, T("s"), Text(<<"4","2">>), PyInt(0), PyInt(7), PyBool(TRUE),
     PyBool(FALSE), PyFloat("finite", 37), List(<<>>), List(<<T("a")>>), List(<<PyInt(1)>>),
     Dict(NoKeys), Dict([name |-> T("n")]), Dict([name |-> PyNone, id |-> PyInt(3)])}

\* every payload that differs from `full` in at most one key
Variants(full) ==
    {full} \cup {Drop(full, k) : k \in DOMAIN full.val}
    \cup {With(full, k, v) : k \in DOMAIN full.val, v \in JsonValues}

FullUser ==
    Dict([accountId |-> T("a"), displayName |-> T("D"), emailAddress |-> T("e"),
          active |-> PyBool(TRUE), avatarUrls |-> Dict("48x48" :> T("u"))])

FullStatus ==
    Dict([id |-> T("3"), name |-> T("o"), statusCategory |-> Dict([name |-> T("c")])])

FullIssueType == Dict([id |-> PyInt(5), name |-> T("b"), subtask |-> PyBool(TRUE)])

FullPriority == Dict([id |-> T("2"), name |-> T("h")])

FullProject == Dict([id |-> T("9"), key |-> T("K"), name |-> T("p")])

FullComment ==
    Dict([id |-> T("1"), author |-> FullUser,
          body |-> Document(List(<<Paragraph(<<Hello, world>>)>>)),
          created |-> T("x"), updated |-> T("y")])

FullWorklog ==
    Dict([id |-> T("4"), author |-> FullUser,
          comment |-> Document(List(<<Paragraph(<<Hello>>)>>)),
          timeSpent |-> Text(<<"1","h">>), timeSpentSeconds |-> PyInt(3600),
          created |-> T("x"), started |-> T("z")])

UserPayloads == Variants(FullUser) \cup JsonValues
StatusPayloads == Variants(FullStatus) \cup JsonValues
IssueTypePayloads == Variants(FullIssueType) \cup JsonValues
PriorityPayloads == Variants(FullPriority) \cup JsonValues
ProjectPayloads == Variants(FullProject) \cup JsonValues
CommentPayloads ==
    Variants(FullComment) \cup JsonValues
    \cup {With(FullComment, "body", d) : d \in {Document(PyInt(5)), T("t")}}
    \cup {With(FullComment, "author", With(FullUser, "avatarUrls", PyNone))}
WorklogPayloads ==
    Variants(FullWorklog) \cup JsonValues
    \cup {With(FullWorklog, "comment", d) : d \in {Document(PyInt(5)), T("t")}}

FullFields ==
    Dict([summary |-> T("s"),
          description |-> Document(List(<<Paragraph(<<Hello, world>>)>>)),
          created |-> T("x"), updated |-> T("y"),
          status |-> FullStatus, issuetype |-> FullIssueType, priority |-> FullPriority,
          assignee |-> FullUser, reporter |-> With(FullUser, "accountId", T("r")),
          labels |-> List(<<T("l")>>),
          components |-> List(<<Dict([name |-> T("c")])>>),
          comment |-> Dict([comments |-> List(<<FullComment>>)]),
          project |-> FullProject,
          duedate |-> T("d"), resolutiondate |-> T("e"),
          parent |-> Dict([key |-> T("P")]),
          subtasks |-> List(<<Dict([key |-> T("S")])>>)])

\* values a nested field of an issue can hold beyond JsonValues
NestedValues ==
    {With(FullUser, "avatarUrls", PyNone), With(FullUser, "emailAddress", PyNone),
     With(FullStatus, "statusCategory", PyNone), Dict([id |-> PyInt(1)]),
     Document(List(<<TextNode(PyInt(5))>>)), Document(PyInt(5)),
     Document(List(<<Paragraph(<<Hello>>), Paragraph(<<world>>)>>)),
     List(<<Dict(NoKeys), T("c"), Dict([name |-> PyNone])>>),
     Dict([comments |-> List(<<PyNone, T("c"), With(FullComment, "body", T("t"))>>)]),
     Dict([comments |-> PyNone])}

FieldsPayloads ==
    Variants(FullFields)
    \cup {With(FullFields, k, v) : k \in DOMAIN FullFields.val, v \in NestedValues}
    \cup {Dict(NoKeys)}
    \cup {Dict(k :> FullFields.val[k]) : k \in DOMAIN FullFields.val}

IssuePayloads ==
    {Dict([id |-> T("7"), key |-> T("K"), fields |-> f]) : f \in FieldsPayloads}
    \cup Variants(Dict([id |-> T("7"), key |-> T("K"), fields |-> FullFields]))
    \cup Variants(Dict([id |-> PyInt(7), key |-> T("K"), fields |-> Dict(NoKeys)]))
    \cup JsonValues

\* requested_fields as the tools pass it on
IssueSelections ==
    FieldSelections
    \cup {List(<<"issuetype">>), List(<<"issue_type">>), List(<<"comment", "labels">>),
          List(<<"key">>)}

NoKwargs == [k \in {} |-> PyNone]

\* a payload deserialized, and the model projected when there is one
Projection(model, to_simplified_dict(_)) ==
    [model |-> model,
     output |-> IF model.ok THEN Returned(to_simplified_dict(model.value)) ELSE model]

Apply_JiraIssue ==
    /\ Idle
    /\ \E data \in IssuePayloads, requested_fields \in IssueSelections :
          Apply("JiraIssue", [data |-> data, requested_fields |-> requested_fields],
                Projection(JiraIssue_from_api_response(data,
                               [requested_fields |-> requested_fields]),
                           JiraIssue_to_simplified_dict))

\* from_api_response followed by to_simplified_dict of a model without selection
Apply_model(name, payloads, from_api_response(_), to_simplified_dict(_)) ==
    /\ Idle
    /\ \E data \in payloads :
          Apply(name, [data |-> data, requested_fields |-> PyNone],
                Projection(from_api_response(data), to_simplified_dict))

Apply_JiraUser ==
    Apply_model("JiraUser", UserPayloads, JiraUser_from_api_response, JiraUser_to_simplified_dict)
Apply_JiraStatus ==
    Apply_model("JiraStatus", StatusPayloads, JiraStatus_from_api_response,
                JiraStatus_to_simplified_dict)
Apply_JiraIssueType ==
    Apply_model("JiraIssueType", IssueTypePayloads, JiraIssueType_from_api_response,
                JiraIssueType_to_simplified_dict)
Apply_JiraPriority ==
    Apply_model("JiraPriority", PriorityPayloads, JiraPriority_from_api_response,
                JiraPriority_to_simplified_dict)
Apply_JiraProject ==
    Apply_model("JiraProject", ProjectPayloads, JiraProject_from_api_response,
                JiraProject_to_simplified_dict)
Apply_JiraComment ==
    Apply_model("JiraComment", CommentPayloads, JiraComment_from_api_response,
                JiraComment_to_simplified_dict)
Apply_JiraWorklog ==
    Apply_model("JiraWorklog", WorklogPayloads, JiraWorklog_from_api_response,
                JiraWorklog_to_simplified_dict)

\* values of the numeric fields of a search response
CountValues ==
    {PyNone, PyInt(0), PyInt(7), PyInt(-2), PyBool(TRUE), PyFloat("finite", 37),
     PyFloat("finite", -15), PyFloat("nan", 0), PyFloat("inf", 1), PyFloat("inf", -1),
     Text(<<"1","2">>), Text(<<" ","7","\n">>), Text(<<"-","3">>), Text(<<"a","b","c">>),
     Text(<<"1",".","5">>), EMPTY_STRING, List(<<>>), List(<<PyInt(1)>>), Dict(NoKeys)}

MinimalIssue == Dict([id |-> T("7"), key |-> T("K"), fields |-> Dict([summary |-> T("s")])])

IssueLists ==
    {List(q) : q \in SeqsUpTo({MinimalIssue, PyNone, Dict([key |-> T("J")])}, MaxNodes)}
    \cup {PyNone, T("s"), Dict(NoKeys),
          List(<<Dict([id |-> T("7"),
                       fields |-> Dict([assignee |-> With(FullUser, "avatarUrls", PyNone)])])>>)}

FullSearch ==
    Dict([total |-> PyInt(7), startAt |-> PyInt(0), maxResults |-> PyInt(50),
          issues |-> List(<<MinimalIssue>>)])

SearchPayloads ==
    {With(FullSearch, k, v) : k \in {"total", "startAt", "maxResults"}, v \in CountValues}
    \cup {Drop(FullSearch, k) : k \in DOMAIN FullSearch.val}
    \cup {With(FullSearch, "issues", v) : v \in IssueLists}
    \cup {Dict([total |-> v, startAt |-> v, maxResults |-> v]) : v \in CountValues}
    \cup JsonValues

SearchKwargs ==
    {NoKwargs, [requested_fields |-> Str(ALL_FIELDS)],
     [requested_fields |-> List(<<"summary">>), base_url |-> T("B")],
     [base_url |-> T("B")]}

Apply_JiraSearchResult ==
    /\ Idle
    /\ \E data \in SearchPayloads, kwargs \in SearchKwargs :
          Apply("JiraSearchResult", [data |-> data, kwargs |-> kwargs],
                Projection(JiraSearchResult_from_api_response(data, kwargs),
                           JiraSearchResult_to_simplified_dict))

\* one structured document as an issue's description, a comment's body and a
\* worklog's comment
Apply_rich_text_fields ==
    /\ Idle
    /\ \E document \in StructuredDocuments :
          Apply("rich_text_fields", document,
                [description |-> JiraIssue_from_api_response(
                                     Dict([fields |-> Dict([description |-> document])]),
                                     NoKwargs),
                 body |-> JiraComment_from_api_response(Dict([body |-> document])),
                 comment |-> JiraWorklog_from_api_response(Dict([comment |-> document]))])

Apply_JiraIssue_extract_text_from_adf ==
    /\ Idle
    /\ \E adf \in Documents :
          Apply("JiraIssue._extract_text_from_adf", adf, JiraIssue_extract_text_from_adf(adf))

Apply_JiraComment_extract_text_from_adf ==
    /\ Idle
    /\ \E adf \in Documents :
          Apply("JiraComment._extract_text_from_adf", adf, JiraComment_extract_text_from_adf(adf))

NextModels ==
    \/ Apply_JiraIssue
    \/ Apply_JiraUser
    \/ Apply_JiraStatus
    \/ Apply_JiraIssueType
    \/ Apply_JiraPriority
    \/ Apply_JiraProject
    \/ Apply_JiraComment
    \/ Apply_JiraWorklog
    \/ Apply_JiraSearchResult
    \/ Apply_rich_text_fields
    \/ Apply_JiraIssue_extract_text_from_adf
    \/ Apply_JiraComment_extract_text_from_adf

SpecModels == Init /\ [][NextModels]_vars

----------------------------------------------------------------------------
(* Claims about the simplified issue record *)

\* an issue was deserialized and projected
IssueProjected == fn = "JiraIssue" /\ ret.model.ok /\ ret.output.ok

\* the names of a list selection
Selected(requested_fields) ==
    {requested_fields.val[n] : n \in 1..Len(requested_fields.val)}

\* the selection makes the name eligible (4.2)
Eligible(requested_fields, name) ==
    \/ requested_fields.type # "list"
    \/ name \in Selected(requested_fields)

\* C11: the identifier fields id and key are present in every simplified issue
\* record, whatever the field selection and whatever the payload the issue was
\* deserialized from (the default issue of a malformed payload included).
C11_IdentifiersPresent ==
    IssueProjected =>
        /\ {"id", "key"} \subseteq DOMAIN ret.output.value
        /\ ret.output.value.id = ret.model.value.val.id
        /\ ret.output.value.key = ret.model.value.val.key

\* The default issue of a malformed payload under the empty list selection:
\* the record holds the default id and the empty key.
C11_Witness ==
    /\ IssueProjected
    /\ arg.data.type = "str"
    /\ arg.requested_fields = List(<<>>)
    /\ ret.output.value.id = DEFAULT_ID
    /\ ret.output.value.key = EMPTY_STRING

\* C12 as stated: every non-identifier field of the record, summary and
\* assignee included, holds a non-empty value: an empty or default value is
\* omitted even when the selection makes the field eligible.
C12_Original ==
    IssueProjected =>
        \A k \in DOMAIN ret.output.value \ {"id", "key"} : Truthy(ret.model.value.val[k])

\* C12 amended: summary is emitted whenever it is eligible, empty or not; an
\* absent assignee is emitted as the placeholder {display_name: Unassigned}
\* whenever assignee is eligible; every other non-identifier field whose value
\* is empty or default is omitted even when eligible.
C12_EmptyOmittedExceptSummaryAssignee ==
    IssueProjected =>
        LET self == ret.model.value.val
            out == ret.output.value
        IN  /\ \A k \in DOMAIN out \ {"id", "key", "summary", "assignee"} : Truthy(self[k])
            /\ Eligible(self.requested_fields, "summary") =>
                  "summary" \in DOMAIN out /\ out.summary = self.summary
            /\ (Eligible(self.requested_fields, "assignee") /\ ~ Truthy(self.assignee)) =>
                  "assignee" \in DOMAIN out
                  /\ out.assignee = Dict([display_name |-> Text(S_Unassigned)])

\* Under the all-marker an issue without labels, assignee or summary text: labels
\* is omitted, the empty summary and the placeholder assignee are emitted.
C12_Witness ==
    /\ IssueProjected
    /\ arg.requested_fields = Str(ALL_FIELDS)
    /\ ret.model.value.val.labels = List(<<>>)
    /\ "labels" \notin DOMAIN ret.output.value
    /\ ret.model.value.val.summary = EMPTY_STRING
    /\ "summary" \in DOMAIN ret.output.value
    /\ ret.model.value.val.assignee.type = "NoneType"
    /\ "assignee" \in DOMAIN ret.output.value

\* the name to_simplified_dict asks the selection about for an output key
SelectionName(key) ==
    CASE key = "issue_type" -> "issuetype"
      [] key = "comments" -> "comment"
      [] key = "worklogs" -> "worklog"
      [] OTHER -> key

\* C13: with a list selection a non-identifier field is in the record only if
\* the name it is selected by is in the list; with the selection ["id"] the
\* record consists of the identifier fields alone.
C13_ListSelection ==
    (IssueProjected /\ arg.requested_fields.type = "list") =>
        /\ \A k \in DOMAIN ret.output.value \ {"id", "key"} :
              SelectionName(k) \in Selected(arg.requested_fields)
        /\ arg.requested_fields = List(<<"id">>) =>
              DOMAIN ret.output.value = {"id", "key"}

----------------------------------------------------------------------------
(* Claims about the response models *)

ModelNames ==
    {"JiraIssue", "JiraUser", "JiraStatus", "JiraIssueType", "JiraPriority", "JiraProject",
     "JiraComment", "JiraWorklog", "JiraSearchResult"}

\* a payload was deserialized and the model was projected
ModelProjected == fn \in ModelNames /\ ret.model.ok /\ ret.output.ok

UnderAllMarker == fn = "JiraIssue" => arg.requested_fields = Str(ALL_FIELDS)

\* a non-empty string, list, object or relation
NonEmpty(v) == v.type \notin {"NoneType", "bool", "int", "float"} /\ Truthy(v)

\* C14 as stated: for every response model, the simplified output under the
\* all-marker contains every field the model defines (the stored selection
\* aside) whose value is non-empty.
C14_Original ==
    (ModelProjected /\ UnderAllMarker) =>
        \A attr \in DOMAIN ret.model.value.val \ {"requested_fields"} :
            NonEmpty(ret.model.value.val[attr]) => attr \in DOMAIN ret.output.value

\* the fields the model's to_simplified_dict emits always / when non-empty
EmittedAlways ==
    [JiraUser |-> {"account_id", "display_name"}, JiraStatus |-> {"name"},
     JiraIssueType |-> {"name", "subtask"}, JiraPriority |-> {"name"},
     JiraProject |-> {"key", "name"}, JiraComment |-> {"id", "body", "created"},
     JiraWorklog |-> {"id", "time_spent", "started"},
     JiraSearchResult |-> {"total", "start_at", "max_results", "issues"}]

EmittedWhenNonEmpty ==
    [JiraUser |-> {"email"}, JiraStatus |-> {"category"}, JiraIssueType |-> {},
     JiraPriority |-> {}, JiraProject |-> {}, JiraComment |-> {"author"},
     JiraWorklog |-> {"author", "comment"}, JiraSearchResult |-> {}]

\* C14 amended: under the all-marker the simplified record of an issue contains
\* every field of the issue (the stored selection aside) whose value is
\* non-empty, and a search result emits all four of its fields; the related
\* models emit a fixed subset of their fields: user account_id, display_name
\* and a non-empty email (never active, avatar_url); status name and a
\* non-empty category (never id); issue type name, subtask (never id);
\* priority name (never id); project key, name (never id); comment id, body,
\* created and a present author (never updated); worklog id, time_spent,
\* started, a present author and a non-empty comment (never
\* time_spent_seconds, created).
C14_RoundTrip ==
    ModelProjected =>
        LET self == ret.model.value.val
            out == ret.output.value
        IN  IF fn = "JiraIssue"
            THEN arg.requested_fields = Str(ALL_FIELDS) =>
                    \A attr \in DOMAIN self \ {"requested_fields"} :
                        Truthy(self[attr]) => attr \in DOMAIN out
            ELSE DOMAIN out =
                    EmittedAlways[fn] \cup {a \in EmittedWhenNonEmpty[fn] : Truthy(self[a])}

\* A complete issue under the all-marker: parent, subtasks, comments and the
\* derived url are all in the record.
C14_Witness ==
    /\ ModelProjected
    /\ fn = "JiraIssue"
    /\ arg.requested_fields = Str(ALL_FIELDS)
    /\ arg.data = Dict([id |-> T("7"), key |-> T("K"), fields |-> FullFields])
    /\ Truthy(ret.model.value.val.parent)
    /\ {"parent", "subtasks", "comments", "url", "issue_type"} \subseteq DOMAIN ret.output.value

\* C15: deserialization is total: from_api_response of every response model
\* returns a model and never raises, whatever field of the payload is missing,
\* null or of the wrong type.
C15_TotalDeserialization ==
    fn \in ModelNames => ret.model.ok

\* a raw field that is a structured value
Structured(d, key) == key \in DOMAIN d.val /\ d.val[key].type = "dict" /\ Truthy(d.val[key])

\* the nested relations of an issue: (attribute, upstream field)
IssueRelations ==
    {<<"assignee", "assignee">>, <<"reporter", "reporter">>, <<"status", "status">>,
     <<"issue_type", "issuetype">>, <<"priority", "priority">>, <<"project", "project">>}

\* C16: a nested relation is present in the model if and only if the raw field
\* is present and is a structured (object) value; for a raw field that is
\* absent, null or a non-object value the relation is absent.
C16_RelationIffStructured ==
    (fn \in {"JiraIssue", "JiraComment", "JiraWorklog"} /\ ret.model.ok
        /\ arg.data.type = "dict" /\ Truthy(arg.data)) =>
        IF fn = "JiraIssue"
        THEN LET raw == DictGet(arg.data, "fields", Dict(NoKeys))
                 fields == IF raw.type = "dict" THEN raw ELSE Dict(NoKeys)
             IN  \A r \in IssueRelations :
                     (ret.model.value.val[r[1]].type # "NoneType") <=> Structured(fields, r[2])
        ELSE (ret.model.value.val.author.type # "NoneType") <=> Structured(arg.data, "author")

\* the upstream value is numeric
Numeric(v) ==
    \/ v.type \in {"int", "bool"}
    \/ v.type = "float" /\ v.val.kind = "finite"
    \/ v.type = "str" /\ ParseInt(v.val).ok

\* the numeric fields of a search result: (attribute, upstream field)
CountFields == {<<"total", "total">>, <<"start_at", "startAt">>, <<"max_results", "maxResults">>}

\* C17: total, start_at and max_results are parsed defensively: the integer
\* value of the upstream field when it is numeric, 0 when it is absent, null
\* or non-numeric, and parsing never raises.
C17_DefensiveCounts ==
    fn = "JiraSearchResult" =>
        /\ ret.model.ok
        /\ (arg.data.type = "dict" /\ Truthy(arg.data)) =>
              \A f \in CountFields :
                  ret.model.value.val[f[1]] =
                      PyInt(IF f[2] \in DOMAIN arg.data.val /\ Numeric(arg.data.val[f[2]])
                            THEN int(arg.data.val[f[2]]).value ELSE 0)

\* C18: rich-text extraction never raises; absent, empty or non-document input
\* gives the empty string; a paragraph's text runs are joined by single spaces
\* and the result is trimmed (the runs "Hello" and "world" in one paragraph
\* give "Hello world"); nodes of other types contribute nothing.
C18_RichTextExtraction ==
    fn = "JiraIssue._extract_text_from_adf" =>
        /\ ret.ok
        /\ ret.value.type = "str"
        /\ (arg.type # "dict" \/ ~ Truthy(arg)) => ret.value = EMPTY_STRING
        /\ arg = Document(List(<<Paragraph(<<Hello, world>>)>>)) =>
              ret.value = Text(Hello \o <<" ">> \o world)
        /\ arg = Paragraph(<<Hello, world>>) => ret.value = Text(Hello \o <<" ">> \o world)
        /\ arg = Document(List(<<Dict([type |-> Text(S_mention)])>>)) => ret.value = EMPTY_STRING
        /\ ret.value.val = strip(ret.value.val)

\* C19: the three rich-text fields go through the same extraction: for every
\* structured document the text of an issue description, of a comment body
\* and of a worklog comment is the same string.
C19_SameExtraction ==
    (fn = "rich_text_fields" /\ ret.description.ok /\ ret.body.ok /\ ret.comment.ok) =>
        /\ ret.description.value.val.description = ret.body.value.val.body
        /\ ret.body.value.val.body = ret.comment.value.val.comment

----------------------------------------------------------------------------
(* providers/atlassian/jira.py: JiraService.count_issues_by_jql, one step   *)
(* per page request.  self.jira is a fake upstream: it answers a page       *)
(* request with any response, or raises.  The page size (100 in the source) *)
(* and the iteration cap (10000 in the source) are scaled down.             *)

max_results_per_page == 2
max_iterations == 4
MaxIssues == 9
Unreached == 1000

IssueKey(n) == Text(<<"K", "-">> \o Decimal(n))

\* the issue objects start+1 .. start+n of the upstream
Page(start, n) == List([k \in 1..n |-> Dict([key |-> IssueKey(start + k)])])

\* the fake upstreams: one that answers anything, and one that holds n issues
\* and serves at most `page` of them per request, with total = n
Upstreams ==
    {[kind |-> "arbitrary", n |-> 0, page |-> 0]}
    \cup {[kind |-> "consistent", n |-> n, page |-> page] :
             n \in 0..MaxIssues, page \in 1..max_results_per_page}

Min(a, b) == IF a < b THEN a ELSE b

\* what self.jira.jql(jql, start, limit, fields) can return
Responses(server, start, limit) ==
    IF server.kind = "consistent"
    THEN {Dict([issues |-> Page(start, IF start >= server.n THEN 0
                                       ELSE Min(Min(limit, server.page), server.n - start)),
                total |-> PyInt(server.n), startAt |-> PyInt(start)])}
    ELSE {Dict([issues |-> issues, total |-> total]) :
             issues \in {Page(start, n) : n \in 0..limit} \cup {Page(0, n) : n \in 1..limit},
             total \in {PyInt(0), PyInt(MaxIssues), PyInt(Unreached), PyNone}}
         \cup {Dict([issues |-> Page(start, limit)]), Dict([total |-> PyInt(Unreached)]),
               Dict([issues |-> PyNone, total |-> PyInt(Unreached)]),
               Dict([issues |-> List(<<T("x")>>), total |-> PyInt(Unreached)]),
               Dict([issues |-> Page(start, limit), total |-> T("9")]),
               PyNone}

Greater(n, total) ==
    CASE total.type = "int" -> Returned(n > total.val)
      [] OTHER -> Raised(TypeError("'>' not supported between instances"))

\* len(all_issues) >= total
GreaterEqual(n, total) ==
    CASE total.type = "int" -> Returned(n >= total.val)
      [] total.type = "bool" -> Returned(n >= (IF total.val THEN 1 ELSE 0))
      [] total.type = "float" ->
            Returned(CASE total.val.kind = "finite" -> 10 * n >= total.val.tenths
                       [] total.val.kind = "inf" -> total.val.tenths < 0
                       [] OTHER -> FALSE)
      [] OTHER -> Raised(TypeError("'>=' not supported between instances"))

\* [issue.get("key") for issue in all_issues]
issue_keys(all_issues) ==
    IF \E n \in 1..Len(all_issues) : all_issues[n].type # "dict"
    THEN Raised(NoGetAttribute)
    ELSE Returned([n \in 1..Len(all_issues) |-> DictGet(all_issues[n], "key", PyNone)])

loop_condition_unbounded(iteration_count) == TRUE

\* while iteration_count < max_iterations
loop_condition(iteration_count) == iteration_count < max_iterations

\* the locals when the method is entered
CountLocals(jql, server) ==
    [pc |-> "loop", jql |-> jql, server |-> server, all_issues |-> <<>>, start_at |-> 0,
     total |-> PyNone, iteration_count |-> 0, requests |-> <<>>]

\* the return statement after the loop
CountReturn(locals) ==
    LET keys == issue_keys(locals.all_issues)
    IN  IF keys.ok
        THEN [locals EXCEPT !.pc = "returned"]
             @@ [returned |->
                    [count |-> Len(locals.all_issues),
                     total_available |-> IF locals.total.type = "NoneType"
                                         THEN PyInt(Len(locals.all_issues))
                                         ELSE locals.total,
                     jql |-> locals.jql,
                     issue_keys |-> keys.value]]
        ELSE [locals EXCEPT !.pc = "raised"] @@ [error |-> keys.error]

\* the top of the while loop: the next page request, or the loop ends
CountContinue(locals) ==
    IF loop_condition(locals.iteration_count)
    THEN [locals EXCEPT !.pc = "awaiting",
                        !.iteration_count = @ + 1,
                        !.requests = Append(@, [start |-> locals.start_at,
                                                limit |-> max_results_per_page])]
    ELSE CountReturn(locals)

\* the loop body after self.jira.jql returned `response`
CountPage(locals, response) ==
    IF response.type # "dict" THEN [locals EXCEPT !.pc = "raised"] @@ [error |-> NoGetAttribute]
    ELSE LET issues == DictGet(response, "issues", List(<<>>))
             items == Iterate(issues)
             total == DictGet(response, "total", PyInt(0))
             extended == [locals EXCEPT !.all_issues = @ \o items.value, !.total = total]
             reached == GreaterEqual(Len(extended.all_issues), total)
         IN  IF ~ items.ok THEN [locals EXCEPT !.pc = "raised"] @@ [error |-> items.error]
             ELSE IF Len(items.value) = 0 THEN CountReturn(extended)
             ELSE IF ~ reached.ok
             THEN [extended EXCEPT !.pc = "raised"] @@ [error |-> reached.error]
             ELSE IF reached.value THEN CountReturn(extended)
             ELSE CountContinue([extended EXCEPT !.start_at = @ + max_results_per_page])

\* count_issues_by_jql is called: up to the first page request
CountCall ==
    /\ Idle
    /\ frame.pc = "none"
    /\ \E server \in Upstreams :
          frame' = CountContinue(CountLocals(<<"j","q","l">>, server))
    /\ fn' = "count_issues_by_jql"
    /\ UNCHANGED <<callVars, arg, ret>>

\* self.jira.jql returns a page: the rest of the iteration, then the next
\* page request or the return
CountResponds ==
    /\ frame.pc = "awaiting"
    /\ \E response \in Responses(frame.server, frame.start_at, max_results_per_page) :
          frame' = CountPage(frame, response)
    /\ UNCHANGED <<callVars, fn, arg, ret>>

\* self.jira.jql raises (HTTP error, timeout): the exception leaves the method
CountUpstreamFails ==
    /\ frame.pc = "awaiting"
    /\ frame' = [frame EXCEPT !.pc = "raised"] @@ [error |-> HTTPError]
    /\ UNCHANGED <<callVars, fn, arg, ret>>

NextCount ==
    \/ CountCall
    \/ CountResponds
    \/ CountUpstreamFails

SpecCount == Init /\ [][NextCount]_vars

\* the call into the upstream returns or raises (the HTTP client has a timeout)
SpecCountFair == SpecCount /\ WF_vars(NextCount)

\* C20: count-by-query terminates for every upstream behaviour: the loop makes
\* at most the configured cap of page requests, also when the upstream keeps
\* returning non-empty pages and a total that is never reached, and the
\* operation ends (it returns, or the upstream's error leaves it).
C20_CountTerminates ==
    /\ [](frame.pc # "none" => Len(frame.requests) <= max_iterations)
    /\ <>(frame.pc \in {"returned", "raised"})

\* The upstream answered every request with a full page and a total never
\* reached: the operation returned after exactly the cap of requests.
C20_Witness ==
    /\ frame.pc = "returned"
    /\ frame.server.kind = "arbitrary"
    /\ frame.total = PyInt(Unreached)
    /\ Len(frame.requests) = max_iterations
    /\ frame.returned.count = max_iterations * max_results_per_page

----------------------------------------------------------------------------
(* Claims about the pages of count-by-query *)

\* the operation returned from a consistent upstream
CountedConsistent == frame.pc = "returned" /\ frame.server.kind = "consistent"

\* the upstream serves full pages of the requested size
FullPages == frame.server.page = max_results_per_page

Ceil(n, d) == (n + d - 1) \div d

\* the offsets 0, page, 2 * page, ... of k requests of the requested size
Offsets(k) == [i \in 1..k |-> [start |-> (i - 1) * max_results_per_page,
                               limit |-> max_results_per_page]]

\* the identifiers of the issues 1..n, in order
AllKeys(n) == [k \in 1..n |-> IssueKey(k)]

\* exactly ceil(N / page size) requests (one when N = 0) at the offsets 0,
\* page, 2 * page, ..., and count = total_available = N with N identifiers
ExactPaging ==
    /\ frame.requests = Offsets(IF frame.server.n = 0 THEN 1
                                ELSE Ceil(frame.server.n, max_results_per_page))
    /\ frame.returned.count = frame.server.n
    /\ frame.returned.total_available = PyInt(frame.server.n)
    /\ Len(frame.returned.issue_keys) = frame.server.n

\* C21 as stated: for a consistent upstream that holds N issues and serves
\* them in pages of the page size, count-by-query issues exactly
\* ceil(N / page size) requests and returns count = total_available = N and
\* N identifiers, for every N.
C21_Original == (CountedConsistent /\ FullPages) => ExactPaging

\* C21: the same for every N of at most max_iterations * page size issues:
\* beyond that the cap on the iterations ends the loop first.
C21_ExactPaging ==
    (CountedConsistent /\ FullPages
     /\ frame.server.n <= max_iterations * max_results_per_page) => ExactPaging

\* Two full pages and a last partial one (the case of 250 issues): three requests.
C21_Witness ==
    /\ CountedConsistent /\ FullPages
    /\ frame.server.n = 2 * max_results_per_page + 1
    /\ Len(frame.requests) = 3
    /\ frame.returned.count = frame.server.n
    /\ frame.returned.issue_keys = AllKeys(frame.server.n)

\* C27: count-by-query accumulates every matching identifier: for a consistent
\* upstream holding N issues that returns at most P items per page, P possibly
\* smaller than the requested page size, the returned list holds each of the N
\* issues exactly once and count = N.
C27_AllAccumulated ==
    CountedConsistent =>
        /\ frame.returned.issue_keys = AllKeys(frame.server.n)
        /\ frame.returned.count = frame.server.n

\* C28: the pagination loop never ends by an error on a page it received: the
\* only exception that leaves the operation is the upstream call's own.
C28_NormalReturn == frame.pc = "raised" => frame.error = HTTPError

----------------------------------------------------------------------------
(* Claims about the construction of client and service *)

\* C29: a tracker (Jira) tool call whose header map carries a valid token and
\* a valid tenant id builds its client and service and goes on to issue its
\* upstream request: no failure comes between the validation of the
\* credentials and the first upstream call.
C29_ValidCredentialsReachUpstream ==
    \A i \in Invocations : \A headers \in reads[i] :
        (/\ request[i].tool \in JiraTools
         /\ _get_atlassian_token(headers).ok
         /\ _get_atlassian_cloud_id(headers).ok)
        => upstream[i] # <<>>

----------------------------------------------------------------------------
(* providers/microsoft: OutlookService and TeamsService.  A method builds   *)
(* one request and returns what self.client.get / post returns.  The clock  *)
(* (datetime.utcnow()) is an input, counted in days.                        *)

MaxLimit == 27
GRAPH_LIMIT == 25

S_inbox == <<"i","n","b","o","x">>
S_sent == <<"s","e","n","t">>
S_sentitems == <<"s","e","n","t","i","t","e","m","s">>
S_drafts == <<"d","r","a","f","t","s">>
S_deleted == <<"d","e","l","e","t","e","d">>
S_deleteditems == <<"d","e","l","e","t","e","d","i","t","e","m","s">>
S_junk == <<"j","u","n","k">>
S_junkemail == <<"j","u","n","k","e","m","a","i","l">>

\* get_emails: folder_mapping.get(folder.lower(), folder)
folder_mapping(folder) ==
    CASE lower(folder) = S_inbox -> S_inbox
      [] lower(folder) = S_sent -> S_sentitems
      [] lower(folder) = S_drafts -> S_drafts
      [] lower(folder) = S_deleted -> S_deleteditems
      [] lower(folder) = S_junk -> S_junkemail
      [] OTHER -> folder

\* get_emails: the endpoint
get_emails_endpoint(folder) ==
    IF Truthy(folder)
    THEN [path |-> "/v1.0/me/mailFolders/{folder_name}/messages",
          folder_name |-> folder_mapping(folder.val)]
    ELSE [path |-> "/v1.0/me/messages", folder_name |-> <<>>]

received_filter(days_back, now) ==
    IF Truthy(days_back)
    THEN <<[filter |-> "receivedDateTime ge {start_date}", value |-> now - days_back.val]>>
    ELSE <<>>

is_read_filter(is_read) ==
    IF is_read.type # "NoneType"
    THEN <<[filter |-> "isRead eq {str(is_read).lower()}", value |-> is_read.val]>>
    ELSE <<>>

get_emails_filters_with_sender(from_address, subject_contains, days_back, is_read, now) ==
    (IF Truthy(from_address)
     THEN <<[filter |-> "from/emailAddress/address eq", value |-> from_address.val]>>
     ELSE <<>>)
    \o received_filter(days_back, now) \o is_read_filter(is_read)

\* get_emails: the list `filters`; from_address and subject_contains add nothing
get_emails_filters(from_address, subject_contains, days_back, is_read, now) ==
    received_filter(days_back, now) \o is_read_filter(is_read)

EMAIL_SELECT == "id,subject,from,receivedDateTime,isRead,hasAttachments,bodyPreview"

\* get_emails: params, with "$filter" only when there are filters
get_emails_params(top, filters) ==
    IF filters # <<>>
    THEN [top |-> top, orderby |-> "receivedDateTime desc", select |-> EMAIL_SELECT,
          filter |-> filters]
    ELSE [top |-> top, orderby |-> "receivedDateTime desc", select |-> EMAIL_SELECT]

\* OutlookService.get_emails: the request handed to self.client.get
OutlookService_get_emails(top, folder, from_address, subject_contains, days_back, is_read, now) ==
    [method |-> "GET",
     endpoint |-> get_emails_endpoint(folder),
     params |-> get_emails_params(top,
                    get_emails_filters(from_address, subject_contains, days_back, is_read, now))]

\* server.py outlook_get_emails: the arguments are passed on in order
outlook_get_emails(a, now) ==
    OutlookService_get_emails(a.top, a.folder, a.from_address, a.subject_contains,
                              a.days_back, a.is_read, now)

search_top_uncapped(top) == top

\* min(top, 25)
search_top(top) == IF top < GRAPH_LIMIT THEN top ELSE GRAPH_LIMIT

\* OutlookService.search_emails: the request handed to self.client.get
OutlookService_search_emails(query, top) ==
    [method |-> "GET",
     endpoint |-> [path |-> "/v1.0/me/messages", folder_name |-> <<>>],
     params |-> [search |-> [quoted |-> query], top |-> search_top(top),
                 orderby |-> "receivedDateTime desc", select |-> EMAIL_SELECT]]

\* search_teams_messages: the query string
query_parts(keyword, from_user) ==
    (IF Truthy(keyword) THEN <<[part |-> "{keyword}", value |-> keyword.val]>> ELSE <<>>)
    \o (IF Truthy(from_user) THEN <<[part |-> "from:{from_user}", value |-> from_user.val]>>
        ELSE <<>>)

query_string(parts) == IF parts # <<>> THEN parts ELSE <<[part |-> "*", value |-> <<>>]>>

\* TeamsService.search_teams_messages: the request handed to self.client.post
TeamsService_search_teams_messages(keyword, from_user, days_back, max_results) ==
    [method |-> "POST",
     endpoint |-> [path |-> "/v1.0/search/query", folder_name |-> <<>>],
     json |-> [entityTypes |-> <<"chatMessage">>,
               queryString |-> query_string(query_parts(keyword, from_user)),
               from |-> 0,
               size |-> search_top(max_results)]]

\* what the Graph API answers
GraphResponses ==
    {Dict([value |-> List(<<>>)]),
     Dict([value |-> List(<<Dict([subject |-> T("s"), from |-> T("a")])>>)]),
     Dict([value |-> List(<<Dict([subject |-> T("s"), from |-> T("a")]),
                            Dict([subject |-> T("t"), from |-> T("b")])>>)])}

\* `return await self.client.get(...)`: the upstream's answer, or its error
GraphResults == {Returned(r) : r \in GraphResponses} \cup {Raised(HTTPError)}

OptionalTexts == {PyNone, EMPTY_STRING, T("a"), T("b")}

Folders == {PyNone, Text(S_inbox), Text(<<"S","e","n","t">>), Text(S_junk), Text(<<"x">>)}

EmailArguments ==
    [top : {1, 10}, folder : Folders, from_address : {PyNone, T("a")},
     subject_contains : {PyNone}, days_back : {PyNone, PyInt(0), PyInt(7)},
     is_read : {PyNone, PyBool(TRUE), PyBool(FALSE)}]

\* two calls of outlook_get_emails that differ at most in from_address and
\* subject_contains, against the same mailbox at the same time: the upstream
\* answers equal requests alike
Apply_outlook_get_emails ==
    /\ Idle
    /\ \E a \in EmailArguments, from_address \in OptionalTexts,
          subject_contains \in OptionalTexts, now \in {100},
          answer \in GraphResults, other \in GraphResults :
          Apply("outlook_get_emails",
                [first |-> a,
                 second |-> [a EXCEPT !.from_address = from_address,
                                      !.subject_contains = subject_contains],
                 answer |-> answer],
                [first |-> [request |-> outlook_get_emails(a, now), result |-> answer],
                 second |->
                    [request |-> outlook_get_emails(
                                     [a EXCEPT !.from_address = from_address,
                                               !.subject_contains = subject_contains], now),
                     result |-> IF outlook_get_emails(
                                       [a EXCEPT !.from_address = from_address,
                                                 !.subject_contains = subject_contains], now)
                                   = outlook_get_emails(a, now)
                                THEN answer ELSE other]])

Limits == (0 - 2)..MaxLimit

Apply_outlook_search_emails ==
    /\ Idle
    /\ \E query \in {<<"q">>, <<>>}, top \in Limits :
          Apply("outlook_search_emails", [query |-> query, limit |-> top],
                OutlookService_search_emails(query, top))

Apply_teams_search_messages ==
    /\ Idle
    /\ \E keyword \in {PyNone, T("k")}, from_user \in {PyNone, T("u")},
          max_results \in Limits :
          Apply("teams_search_messages",
                [keyword |-> keyword, from_user |-> from_user, limit |-> max_results],
                TeamsService_search_teams_messages(keyword, from_user, 7, max_results))

NextGraph ==
    \/ Apply_outlook_get_emails
    \/ Apply_outlook_search_emails
    \/ Apply_teams_search_messages

SpecGraph == Init /\ [][NextGraph]_vars

SizeSent ==
    IF fn = "outlook_search_emails" THEN ret.params.top ELSE ret.json.size

\* C30: the email search and the Teams message search never ask the upstream
\* for more than 25 items: the size sent is min(limit, 25) for every integer
\* limit of the caller.
C30_SearchLimit ==
    fn \in {"outlook_search_emails", "teams_search_messages"} =>
        /\ SizeSent <= 25
        /\ arg.limit <= 25 => SizeSent = arg.limit
        /\ arg.limit > 25 => SizeSent = 25

\* An email search with a limit above 25 was sent with 25.
C30_Witness ==
    /\ fn = "outlook_search_emails"
    /\ arg.limit = 26
    /\ ret.params.top = 25

----------------------------------------------------------------------------
(* server.py: confluence_search_content.  service.search is a fake: `fails` *)
(* says which of its calls raise.                                           *)

CQL_OPERATORS ==
    {<<"=">>, <<"~">>, <<">">>, <<"<">>, <<" ","A","N","D"," ">>, <<" ","O","R"," ">>,
     <<"c","u","r","r","e","n","t","U","s","e","r","(",")">>}

\* query and not any(x in query for x in [...])
is_simple_term(query) == query # <<>> /\ ~ \E x \in CQL_OPERATORS : Contains(query, x)

\* f'siteSearch ~ "{original_query}"'
siteSearch_form(original_query) ==
    <<"s","i","t","e","S","e","a","r","c","h"," ","~"," ","\"">> \o original_query \o <<"\"">>

\* f'text ~ "{original_query}"'
text_form(original_query) ==
    <<"t","e","x","t"," ","~"," ","\"">> \o original_query \o <<"\"">>

Attempt(query, limit) == [cql |-> query, limit |-> limit]

\* the handler from the test of the query on: its calls of service.search and
\* the query it reports, or the exception of the last call
search_attempts(cql, limit, fails) ==
    IF is_simple_term(cql)
    THEN IF fails[1]
         THEN [attempts |-> <<Attempt(siteSearch_form(cql), limit), Attempt(text_form(cql), limit)>>,
               outcome |-> IF fails[2] THEN Raised(HTTPError)
                           ELSE Returned([query |-> text_form(cql)])]
         ELSE [attempts |-> <<Attempt(siteSearch_form(cql), limit)>>,
               outcome |-> Returned([query |-> siteSearch_form(cql)])]
    ELSE [attempts |-> <<Attempt(cql, limit)>>,
          outcome |-> IF fails[1] THEN Raised(HTTPError) ELSE Returned([query |-> cql])]

\* service = ConfluenceService(client), then the search
confluence_with_service(service, cql, limit, fails) ==
    IF service.ok THEN search_attempts(cql, limit, fails)
    ELSE [attempts |-> <<>>, outcome |-> service]

\* client = AtlassianClient(token, cloud_id), after the two credential helpers
confluence_with_credentials(token, cloud_id, cql, limit, fails) ==
    IF Raises(<<token, cloud_id>>)
    THEN [attempts |-> <<>>, outcome |-> FirstRaised(<<token, cloud_id>>)]
    ELSE confluence_with_service(
             ConfluenceService(AtlassianClient(token.value, cloud_id.value)),
             cql, limit, fails)

confluence_search_content(headers, cql, limit, fails) ==
    confluence_with_credentials(_get_atlassian_token(headers),
                                _get_atlassian_cloud_id(headers), cql, limit, fails)

CqlQueries ==
    {<<>>, <<"a">>, <<"a"," ","b">>, <<"a","=","b">>, <<"t","~","x">>, <<"a",">","1">>,
     <<"<">>, <<"a"," ","A","N","D"," ","b">>, <<"a"," ","O","R"," ","b">>, <<"c","u","r","r","e","n","t","U","s","e","r","(",")">>,
     <<"a","n","d">>, <<"a"," ","o","r"," ","b">>, <<"a","\"","b">>}

Apply_confluence_search_content ==
    /\ Idle
    /\ \E items \in TaggedHeaders(1), cql \in CqlQueries, limit \in {1, 10},
          fails \in [1..2 -> BOOLEAN] :
          Apply("confluence_search_content",
                [headers |-> normalized_headers(items), cql |-> cql, limit |-> limit,
                 fails |-> fails],
                confluence_search_content(normalized_headers(items), cql, limit, fails))

\* a call of confluence_search_content whose header map carries valid credentials
ConfluenceCalled ==
    /\ fn = "confluence_search_content"
    /\ _get_atlassian_token(arg.headers).ok
    /\ _get_atlassian_cloud_id(arg.headers).ok

\* C22: for a non-empty query without query-language operators the first
\* upstream attempt uses the site-search form; a second attempt is made if and
\* only if the first raised, with the literal text-match form of the same text
\* and the same limit; a query with an operator is sent unchanged in a single
\* attempt.
C22_FallbackSearch ==
    ConfluenceCalled =>
        IF is_simple_term(arg.cql)
        THEN /\ Len(ret.attempts) \in {1, 2}
             /\ ret.attempts[1] = Attempt(siteSearch_form(arg.cql), arg.limit)
             /\ (Len(ret.attempts) = 2) <=> arg.fails[1]
             /\ Len(ret.attempts) = 2 => ret.attempts[2] = Attempt(text_form(arg.cql), arg.limit)
        ELSE arg.cql # <<>> => ret.attempts = <<Attempt(arg.cql, arg.limit)>>

----------------------------------------------------------------------------
(* providers/atlassian/jira.py: search_issues_by_jql and get_issue, and the *)
(* tools of server.py that return their simplified records.  The service is *)
(* built around a fake client: client.jira answers a request with any       *)
(* response or raises, client.jira_url is the base URL.  A comma-separated  *)
(* fields string is the sequence of its names, commas and spaces.           *)

MINIMAL_JIRA_FIELDS ==
    <<"summary", "status", "assignee", "issuetype", "priority", "created", "updated">>

DEFAULT_READ_JIRA_FIELDS ==
    <<"summary", "description", "status", "assignee", "reporter", "labels", "priority",
      "created", "updated", "issuetype">>

\* a str value of the fields parameter
FieldsStr(tokens) ==
    [type |-> "str",
     val |-> IF tokens = <<ALL_FIELDS>> THEN ALL_FIELDS ELSE IF tokens = <<>> THEN "" ELSE "csv",
     tokens |-> tokens]

\* fields.split(",")
RECURSIVE split(_, _)
split(tokens, current) ==
    IF tokens = <<>> THEN <<current>>
    ELSE IF Head(tokens) = "," THEN <<current>> \o split(Tail(tokens), <<>>)
    ELSE split(Tail(tokens), Append(current, Head(tokens)))

IsName(token) == token # " "

\* f.strip() of one part: the name between the spaces, "" when there is none
stripped_name(part) ==
    IF SelectSeq(part, IsName) = <<>> THEN "" ELSE Head(SelectSeq(part, IsName))

\* [f.strip() for f in fields.split(",")]
fields_list(parts) == [n \in 1..Len(parts) |-> stripped_name(parts[n])]

parse_fields_default_unselected(fields, default) ==
    IF fields.type = "str" /\ fields.val = ALL_FIELDS
    THEN [fields_str |-> <<ALL_FIELDS>>, requested_fields |-> Str(ALL_FIELDS)]
    ELSE IF fields.type = "str" /\ fields.val # ""
    THEN [fields_str |-> fields_list(split(fields.tokens, <<>>)),
          requested_fields |-> List(fields_list(split(fields.tokens, <<>>)))]
    ELSE IF fields.type = "list" /\ fields.val # <<>>
    THEN [fields_str |-> fields.val, requested_fields |-> fields]
    ELSE [fields_str |-> default, requested_fields |-> PyNone]

\* "Parse fields parameter": the names to fetch (joined with commas) and the
\* selection handed to the model
parse_fields(fields, default) ==
    IF fields.type = "str" /\ fields.val = ALL_FIELDS
    THEN [fields_str |-> <<ALL_FIELDS>>, requested_fields |-> Str(ALL_FIELDS)]
    ELSE IF fields.type = "str" /\ fields.val # ""
    THEN [fields_str |-> fields_list(split(fields.tokens, <<>>)),
          requested_fields |-> List(fields_list(split(fields.tokens, <<>>)))]
    ELSE IF fields.type = "list" /\ fields.val # <<>>
    THEN [fields_str |-> fields.val, requested_fields |-> fields]
    ELSE [fields_str |-> default, requested_fields |-> List(default)]

\* the service object, with the attributes its methods read
FakeService(jira_url) == [client |-> [jira_url |-> jira_url], jira |-> "fake"]

\* _search_with_models after the fields are parsed: the request to
\* self.jira.jql and the model of its answer
search_with_parsed(self, jql, max_results, parsed, answer) ==
    [request |-> [jql |-> jql, limit |-> max_results, fields |-> parsed.fields_str],
     outcome |-> IF answer.ok
                 THEN JiraSearchResult_from_api_response(answer.value,
                          [requested_fields |-> parsed.requested_fields,
                           base_url |-> self.client.jira_url])
                 ELSE answer]

JiraService_search_with_models(self, jql, max_results, fields, answer) ==
    search_with_parsed(self, jql, max_results, parse_fields(fields, MINIMAL_JIRA_FIELDS), answer)

JiraService_search_issues_by_jql(self, jql, max_results, fields, answer) ==
    JiraService_search_with_models(self, jql, max_results, fields, answer)

\* get_issue: if issue.url: issue.url = f"{self.client.jira_url}{issue.url}"
issue_with_full_url(self, issue) ==
    IF ~ issue.ok THEN issue
    ELSE IF Truthy(issue.value.val.url)
    THEN Returned([issue.value EXCEPT !.val.url =
                      Text(PyStr(self.client.jira_url).val \o PyStr(issue.value.val.url).val)])
    ELSE issue

\* get_issue after the fields are parsed
get_issue_with_parsed(self, issue_key, parsed, answer) ==
    [request |-> [issue_key |-> issue_key, fields |-> parsed.fields_str],
     outcome |-> IF answer.ok
                 THEN issue_with_full_url(self,
                          JiraIssue_from_api_response(answer.value,
                              [requested_fields |-> parsed.requested_fields]))
                 ELSE answer]

JiraService_get_issue(self, issue_key, fields, answer) ==
    get_issue_with_parsed(self, issue_key, parse_fields(fields, DEFAULT_READ_JIRA_FIELDS), answer)

\* the tools: the service's request, its model and the record they return
Called(call, to_simplified_dict(_)) ==
    [request |-> call.request, projection |-> Projection(call.outcome, to_simplified_dict)]

FullIssue == Dict([id |-> T("7"), key |-> T("K"), fields |-> FullFields])

FieldsParameters ==
    {PyNone, FieldsStr(<<>>), FieldsStr(<<ALL_FIELDS>>),
     FieldsStr(<<"summary", ",", " ", "labels">>), FieldsStr(<<" ", "url", " ">>),
     FieldsStr(<<"project", ",">>), List(<<"labels", "url">>), List(<<>>)}

BaseUrls == {Text(<<"h",":","/","/","j">>), EMPTY_STRING}

SearchAnswers ==
    {Returned(Dict([total |-> PyInt(7), startAt |-> PyInt(0), maxResults |-> PyInt(50),
                    issues |-> List(q)])) :
        q \in SeqsUpTo({FullIssue, MinimalIssue, Dict([key |-> EMPTY_STRING]),
                        Dict([id |-> T("9"), key |-> PyNone]), T("x")}, MaxNodes)}
    \cup {Returned(PyNone), Returned(Dict(NoKeys)), Raised(HTTPError)}

IssueAnswers == {Returned(r) : r \in IssuePayloads} \cup {Raised(HTTPError)}

Apply_jira_search_issues_by_jql ==
    /\ Idle
    /\ \E fields \in FieldsParameters, jira_url \in BaseUrls, answer \in SearchAnswers :
          Apply("jira_search_issues_by_jql",
                [fields |-> fields, jira_url |-> jira_url, answer |-> answer],
                Called(JiraService_search_issues_by_jql(FakeService(jira_url), <<"j","q","l">>,
                                                        50, fields, answer),
                       JiraSearchResult_to_simplified_dict))

Apply_jira_get_issue ==
    /\ Idle
    /\ \E fields \in FieldsParameters, jira_url \in BaseUrls, answer \in IssueAnswers :
          Apply("jira_get_issue",
                [fields |-> fields, jira_url |-> jira_url, answer |-> answer],
                Called(JiraService_get_issue(FakeService(jira_url), <<"K">>, fields, answer),
                       JiraIssue_to_simplified_dict))

NextTools ==
    \/ Apply_confluence_search_content
    \/ Apply_jira_search_issues_by_jql
    \/ Apply_jira_get_issue

SpecTools == Init /\ [][NextTools]_vars

----------------------------------------------------------------------------
(* Claims about the default field sets and the browse URL *)

ToolReturned ==
    /\ fn \in {"jira_search_issues_by_jql", "jira_get_issue"}
    /\ ret.projection.output.ok

FieldsOmitted == arg.fields = PyNone

\* the issue models behind the returned record, and their simplified records
ReturnedModels ==
    IF fn = "jira_search_issues_by_jql"
    THEN ret.projection.model.value.val.issues.val
    ELSE <<ret.projection.model.value>>

ReturnedRecords ==
    IF fn = "jira_search_issues_by_jql"
    THEN [n \in 1..Len(ret.projection.output.value.issues.val) |->
             ret.projection.output.value.issues.val[n].val]
    ELSE <<ret.projection.output.value>>

DefaultKeys ==
    IF fn = "jira_search_issues_by_jql"
    THEN {"id", "key", "summary", "status", "assignee", "issue_type", "priority",
          "created", "updated"}
    ELSE {"id", "key", "summary", "description", "status", "assignee", "reporter",
          "labels", "priority", "created", "updated", "issue_type"}

\* C24: when the fields parameter is omitted, every issue returned by
\* jira_search_issues_by_jql has no keys other than id, key and the
\* projections of summary, status, assignee, issuetype, priority, created and
\* updated, and the issue returned by jira_get_issue no keys other than id,
\* key and the projections of summary, description, status, assignee,
\* reporter, labels, priority, created, updated and issuetype.
C24_DefaultFieldSet ==
    (ToolReturned /\ FieldsOmitted) =>
        \A n \in 1..Len(ReturnedRecords) : DOMAIN ReturnedRecords[n] \subseteq DefaultKeys

C24_Witness ==
    /\ fn = "jira_search_issues_by_jql"
    /\ FieldsOmitted
    /\ ret.projection.output.ok
    /\ arg.answer =
         Returned(Dict([total |-> PyInt(7), startAt |-> PyInt(0), maxResults |-> PyInt(50),
                       issues |-> List(<<FullIssue, MinimalIssue>>)]))
    /\ DOMAIN ReturnedRecords[1] = DefaultKeys
    /\ DOMAIN ReturnedRecords[2] = {"id", "key", "summary", "assignee"}

\* the optional fields of the record that the default set of the tool does
\* not name
OutsideDefault ==
    {n \in 1..Len(OptionalFields) :
        OptionalFields[n][2] \notin
            {IF fn = "jira_search_issues_by_jql" THEN MINIMAL_JIRA_FIELDS[k]
             ELSE DEFAULT_READ_JIRA_FIELDS[k] :
                k \in 1..(IF fn = "jira_search_issues_by_jql" THEN Len(MINIMAL_JIRA_FIELDS)
                          ELSE Len(DEFAULT_READ_JIRA_FIELDS))}}

\* C25 as stated: with the fields parameter omitted, a non-empty field outside
\* the default set that the deserialized issue holds is emitted in its
\* simplified record.
C25_Original ==
    (ToolReturned /\ FieldsOmitted) =>
        \A n \in 1..Len(ReturnedRecords) : \A f \in OutsideDefault :
            Truthy(ReturnedModels[n].val[OptionalFields[f][1]])
                => OptionalFields[f][3] \in DOMAIN ReturnedRecords[n]

\* C25, amended: with the fields parameter omitted the service resolves the
\* selection to the default list before it deserializes, so the tool never
\* emits a field outside the default set, even when the issue holds it
\* non-empty; the same issue projected under an absent selection emits it.
C25_DefaultRestrictsProjection ==
    (ToolReturned /\ FieldsOmitted) =>
        \A n \in 1..Len(ReturnedRecords) : \A f \in OutsideDefault :
            /\ OptionalFields[f][3] \notin DOMAIN ReturnedRecords[n]
            /\ Truthy(ReturnedModels[n].val[OptionalFields[f][1]])
                 => OptionalFields[f][3] \in DOMAIN JiraIssue_to_simplified_dict(
                        [ReturnedModels[n] EXCEPT !.val.requested_fields = PyNone])

C25_Witness ==
    /\ fn = "jira_get_issue"
    /\ FieldsOmitted
    /\ ret.projection.output.ok
    /\ arg.answer = Returned(FullIssue)
    /\ Truthy(ReturnedModels[1].val.project)
    /\ Truthy(ReturnedModels[1].val.url)
    /\ {"project", "url"} \cap DOMAIN ReturnedRecords[1] = {}
    /\ {"project", "url"} \subseteq DOMAIN JiraIssue_to_simplified_dict(
            [ReturnedModels[1] EXCEPT !.val.requested_fields = PyNone])

\* "/browse/" + key behind the base URL
BrowseUrl(base_url, key) == Text(base_url.val \o S_browse \o key.val)

\* C26: an issue's browse URL is absent exactly when its key is absent or
\* empty; otherwise it is the base URL followed by "/browse/" and the key, on
\* the single-issue path and on the search path alike, the base prefixed
\* exactly once.
C26_BrowseUrl ==
    (fn \in {"jira_search_issues_by_jql", "jira_get_issue"} /\ ret.projection.model.ok) =>
        \A n \in 1..Len(ReturnedModels) :
            ReturnedModels[n].val.key.type \in {"str", "NoneType"} =>
                IF ReturnedModels[n].val.key \in {PyNone, EMPTY_STRING}
                THEN ReturnedModels[n].val.url = PyNone
                ELSE ReturnedModels[n].val.url =
                        BrowseUrl(arg.jira_url, ReturnedModels[n].val.key)

C26_Witness ==
    /\ fn = "jira_search_issues_by_jql"
    /\ ret.projection.model.ok
    /\ arg.jira_url # EMPTY_STRING
    /\ arg.answer =
         Returned(Dict([total |-> PyInt(7), startAt |-> PyInt(0), maxResults |-> PyInt(50),
                       issues |-> List(<<FullIssue, Dict([key |-> EMPTY_STRING])>>)]))
    /\ ReturnedModels[1].val.url = BrowseUrl(arg.jira_url, T("K"))
    /\ ReturnedModels[2].val.url = PyNone
    /\ JiraService_get_issue(FakeService(arg.jira_url), <<"K">>, arg.fields,
                             Returned(FullIssue)).outcome.value.val.url
         = ReturnedModels[1].val.url

====
